---------------------------- MODULE Spec2Model ----------------------------
(***************************************************************************)
(* A model of the ingestion-and-aggregation engine of bp_performance:      *)
(* the chain node as seen through get_info / get_block, the retry wrapper  *)
(* _with_backoff, the tailer Database.run with its pool of fetch workers,  *)
(* and the aggregator Database._handle_block with its two stores.         *)
(*                                                                         *)
(* Timestamps are integers: milliseconds since 2000-01-01T00:00:00, the    *)
(* value `timestamp - datetime.fromtimestamp(946684800)` of the source.    *)
(* Block timestamps are multiples of 500 ms.                               *)
(***************************************************************************)
EXTENDS Integers, Sequences, FiniteSets, TLC

VARIABLES
    chain,          \* the node's irreversible blocks; chain[n] is block number n
    pc,             \* where the process running Database.run stands
    current_block,  \* Database.current_block, a BlockSummary
    timestamp,      \* Database.timestamp, the cursor
    block_db,       \* the LMDB sub-database block_db: isoformat key -> BlockSummary
    schedule_db,    \* the LMDB sub-database schedule_db: packed version -> names
    exc,            \* the exception that left Database.run, "none" if none did
    _stopped,       \* Database._stopped
    tasks,          \* the get_block calls of the running imap: block number -> task
    rpc,            \* a call of a retry-wrapped RPC, followed pass by pass
    applied,        \* the numbers of the blocks this run has handed to _handle_block, in order
    finished,       \* the block numbers of the running imap, in the order their fetches ended
    reply,          \* the last call of the query API or of the library, and what it returned
    utcoffset,      \* the offset of the host's local time from UTC, in ms
    objects         \* the Stats and BpData objects of a caller of the library

vars == <<chain, pc, current_block, timestamp, block_db, schedule_db, exc, _stopped, tasks,
          rpc, applied, finished, reply, utcoffset, objects>>

dbVars == <<current_block, timestamp, block_db, schedule_db, exc>>

poolVars == <<tasks, finished>>

hostVars == <<utcoffset, objects>>

-----------------------------------------------------------------------------
(* Bounds of the model *)

MaxBlock == 3       \* the chain grows to at most this many blocks
MaxGap == 2         \* at most this many missed slots between two blocks
MaxFailures == 9    \* an RPC fails with a caught exception at most this often in a row
MaxBuckets == 20          \* the buckets of the histogram the model keeps

(* Constants of the program *)

SlotsPerProducer == 12      \* the 12 of slots_passed, blocks_produced, slot % 12
SaveEvery == 21 * 12 * 10   \* _maybe_save_block: slot % (21 * 12 * 10)
PoolSize == 8               \* ThreadPool(8)
BatchLimit == 1000          \* "Limit to 1000 blocks at once"
SlotMillis == 500           \* datetime.timedelta(seconds=0.5)
EpochOrigin == 0            \* datetime.fromtimestamp(946684800), the origin of time here
StartingBlock == 1          \* run(self, starting_block=1)

NoneNum == -1               \* Python's None where the code keeps a number
NoneList == <<>>            \* Python's None where the code keeps a list

-----------------------------------------------------------------------------
(* Maps: Python dicts and LMDB sub-databases *)

EmptyMap == [k \in {} |-> k]

MapPut(m, k, v) == [x \in (DOMAIN m) \cup {k} |-> IF x = k THEN v ELSE m[x]]

RECURSIVE SumOver(_, _)
SumOver(f, S) ==
    IF S = {} THEN 0
    ELSE LET x == CHOOSE y \in S : TRUE IN f[x] + SumOver(f, S \ {x})

-----------------------------------------------------------------------------
(* Stats: the cumulative histogram and the scalar accumulators *)

\* the R20 series of preferred numbers from 100 up to 900
R20 == << 100, 112, 125, 140, 160, 180, 200, 224, 250, 280,
          315, 355, 400, 450, 500, 560, 630, 710, 800, 900 >>

RECURSIVE Pow10(_)
Pow10(n) == IF n = 0 THEN 1 ELSE 10 * Pow10(n - 1)

\* list(renard.rrange(renard.R20, 100, 500000)): 100, 112, 125, ..., of which the model
\* keeps the first MaxBuckets
_timing_buckets ==
    [i \in 1 .. MaxBuckets |-> R20[((i - 1) % Len(R20)) + 1] * Pow10((i - 1) \div Len(R20))]

NewStats ==
    [measurements |-> [i \in DOMAIN _timing_buckets |-> 0], count |-> 0, sum |-> 0, sum_sq |-> 0]

\* a histogram that is not cumulative: only the first bucket above x counts it
ObserveOneBucket(measurements, x) ==
    [i \in DOMAIN measurements |->
        IF x < _timing_buckets[i] /\ (i = 1 \/ ~(x < _timing_buckets[i - 1]))
        THEN measurements[i] + 1
        ELSE measurements[i]]

\* the loop of observe over the buckets from the last down: bucket i is reached, and
\* counted, when x is below it and below every bucket after it (else: break)
ObserveBuckets(measurements, x) ==
    [i \in DOMAIN measurements |->
        IF \A j \in i .. Len(_timing_buckets) : x < _timing_buckets[j]
        THEN measurements[i] + 1
        ELSE measurements[i]]

observe(stats, x) ==
    [measurements |-> ObserveBuckets(stats.measurements, x),
     count |-> stats.count + 1, sum |-> stats.sum + x, sum_sq |-> stats.sum_sq + x * x]

\* Fractions are pairs <<numerator, denominator>> of integers, the denominator positive.
LeQ(a, b) == a[1] * b[2] <= b[1] * a[2]

\* what a property or method hands back: its value, or the exception it raised
Returns(value) == [status |-> "returned", exc |-> "none", value |-> value]

Raises(name) == [status |-> "raised", exc |-> name, value |-> <<>>]

\* float('nan'), written as the fraction 0 / 0
NaN == <<0, 0>>

\* the property mean: self.sum / self.count
mean(stats) ==
    IF stats.count = 0 THEN Raises("ZeroDivisionError")
    ELSE Returns(<<stats.sum, stats.count>>)

\* the property stddev; of a number the model gives its square, the fraction under sqrt
stddev(stats) ==
    IF stats.count = 0 THEN Returns(NaN)
    ELSE LET under == <<stats.sum_sq * stats.count - stats.sum * stats.sum,
                        stats.count * stats.count>>
         IN IF under[1] < 0 THEN Raises("ValueError")       \* math.sqrt of a negative
            ELSE Returns(under)

\* the interpolation with the bounds of the bucket taken the wrong way round
InterpolateSwapped(xn, xd, lower, upper) == <<xn * lower + (xd - xn) * upper, xd>>

\* x * _timing_buckets[i] + (1 - x) * _timing_buckets[i - 1], with x = xn / xd
Interpolate(xn, xd, lower, upper) == <<xn * upper + (xd - xn) * lower, xd>>

\* quantile(q) for q = q[1] / q[2]; c = q * self.count is kept as the fraction cn / q[2]
quantile(stats, q) ==
    LET m == stats.measurements
        cn == q[1] * stats.count
        hits == { i \in DOMAIN m : \/ m[i] * q[2] > cn
                                    \/ (q[1] = q[2] /\ m[i] * q[2] = cn) }
    IN IF hits = {} THEN Returns(<<_timing_buckets[Len(_timing_buckets)], 1>>)
       ELSE LET i == CHOOSE h \in hits : \A g \in hits : h <= g
            IN IF i = 1 THEN Returns(<<_timing_buckets[1], 1>>)
               ELSE LET prev_obs == m[i - 1]
                        xn == cn - prev_obs * q[2]
                        xd == q[2] * (m[i] - prev_obs)
                    IN IF xd = 0 THEN Raises("ZeroDivisionError")
                       ELSE IF xd < 0
                       THEN Returns(Interpolate(0 - xn, 0 - xd,
                                                _timing_buckets[i - 1], _timing_buckets[i]))
                       ELSE Returns(Interpolate(xn, xd,
                                                _timing_buckets[i - 1], _timing_buckets[i]))

Stats_add(self, other) ==
    [measurements |-> [i \in DOMAIN self.measurements |-> self.measurements[i] + other.measurements[i]],
     count |-> self.count + other.count,
     sum |-> self.sum + other.sum,
     sum_sq |-> self.sum_sq + other.sum_sq]

\* a difference that leaves the histogram of the minuend as it is
SubCountsOnly(self, other) ==
    [measurements |-> self.measurements,
     count |-> self.count - other.count,
     sum |-> self.sum - other.sum,
     sum_sq |-> self.sum_sq - other.sum_sq]

Stats_sub(self, other) ==
    [measurements |-> [i \in DOMAIN self.measurements |-> self.measurements[i] - other.measurements[i]],
     count |-> self.count - other.count,
     sum |-> self.sum - other.sum,
     sum_sq |-> self.sum_sq - other.sum_sq]

-----------------------------------------------------------------------------
(* BpData *)

Slots == 0 .. (SlotsPerProducer - 1)

NewBpData ==
    [tx_data |-> EmptyMap,
     slots_passed |-> [i \in Slots |-> 0],
     blocks_produced |-> [i \in Slots |-> 0]]

\* taking a slot back: one slot less at the position
unmiss_block(bp, slot) ==
    [bp EXCEPT !.slots_passed[slot] = @ - 1]

miss_block(bp, slot) ==
    [bp EXCEPT !.slots_passed[slot] = @ + 1]

\* tx_data[action_sig].observe(cpu) on a defaultdict(Stats)
ObserveTx(tx_data, sig, cpu) ==
    MapPut(tx_data, sig,
           observe(IF sig \in DOMAIN tx_data THEN tx_data[sig] ELSE NewStats, cpu))

\* the loop without the test of len(actions): the first action of every structured
\* transaction that has one is observed
RECURSIVE ObserveFirstActions(_, _, _)
ObserveFirstActions(tx_data, txs, i) ==
    IF i > Len(txs) THEN tx_data
    ELSE LET tx == txs[i]
             next == IF tx.trx.is_dict /\ Len(tx.trx.actions) >= 1
                     THEN ObserveTx(tx_data,
                                    tx.trx.actions[1].account \o ":" \o tx.trx.actions[1].name,
                                    tx.cpu_usage_us)
                     ELSE tx_data
         IN ObserveFirstActions(next, txs, i + 1)

\* the loop over block['transactions'] of process_block, from transaction i on
RECURSIVE ProcessTransactions(_, _, _)
ProcessTransactions(tx_data, txs, i) ==
    IF i > Len(txs) THEN tx_data
    ELSE LET tx == txs[i]
             next == IF tx.trx.is_dict /\ Len(tx.trx.actions) = 1
                     THEN ObserveTx(tx_data,
                                    tx.trx.actions[1].account \o ":" \o tx.trx.actions[1].name,
                                    tx.cpu_usage_us)
                     ELSE tx_data
         IN ProcessTransactions(next, txs, i + 1)

\* a block counted as produced without its slot counted as passed
produce_only(bp, block, slot) ==
    [bp EXCEPT !.blocks_produced[slot] = @ + 1]

process_block(bp, block, slot) ==
    [tx_data |-> ProcessTransactions(bp.tx_data, block.transactions, 1),
     slots_passed |-> [bp.slots_passed EXCEPT ![slot] = @ + 1],
     blocks_produced |-> [bp.blocks_produced EXCEPT ![slot] = @ + 1]]

slots_passed_total(bp) == SumOver(bp.slots_passed, Slots)

blocks_produced_total(bp) == SumOver(bp.blocks_produced, Slots)

BpData_add(self, other) ==
    [tx_data |-> [sig \in (DOMAIN self.tx_data) \cup (DOMAIN other.tx_data) |->
                     LET added == IF sig \in DOMAIN self.tx_data
                                  THEN Stats_add(NewStats, self.tx_data[sig])
                                  ELSE NewStats
                     IN IF sig \in DOMAIN other.tx_data
                        THEN Stats_add(added, other.tx_data[sig])
                        ELSE added],
     slots_passed |-> [i \in Slots |-> self.slots_passed[i] + other.slots_passed[i]],
     blocks_produced |-> [i \in Slots |-> self.blocks_produced[i] + other.blocks_produced[i]]]

\* a difference of the slot counters only: the statistics of the minuend are kept
SubSlotsOnly(self, other) ==
    [tx_data |-> self.tx_data,
     slots_passed |-> [i \in Slots |-> self.slots_passed[i] - other.slots_passed[i]],
     blocks_produced |-> [i \in Slots |-> self.blocks_produced[i] - other.blocks_produced[i]]]

BpData_sub(self, other) ==
    [tx_data |-> [sig \in (DOMAIN self.tx_data) \cup (DOMAIN other.tx_data) |->
                     LET added == IF sig \in DOMAIN self.tx_data
                                  THEN Stats_add(NewStats, self.tx_data[sig])
                                  ELSE NewStats
                     IN IF sig \in DOMAIN other.tx_data
                        THEN Stats_sub(added, other.tx_data[sig])
                        ELSE added],
     slots_passed |-> [i \in Slots |-> self.slots_passed[i] - other.slots_passed[i]],
     blocks_produced |-> [i \in Slots |-> self.blocks_produced[i] - other.blocks_produced[i]]]

\* a BpData left as it is, the Stats without observations kept
keep_all(bp) == bp

minify(bp) ==
    [bp EXCEPT !.tx_data = [sig \in { g \in DOMAIN bp.tx_data : bp.tx_data[g].count # 0 } |->
                               bp.tx_data[sig]]]

-----------------------------------------------------------------------------
(* Timestamps, slots and the rotation *)

\* a host whose local time is UTC
UTC == 0

\* int(x) of a quotient n / d, d > 0: rounded towards zero
int(n, d) == IF n >= 0 THEN n \div d ELSE -((-n) \div d)

\* datetime.datetime.fromtimestamp(946684800): the local time of the host at that instant,
\* as a naive datetime.  The timestamps of blocks are naive datetimes in UTC.
fromtimestamp == EpochOrigin + utcoffset

_timestamp_to_slot(ts) == int((ts - fromtimestamp) * 2, 1000)

\* (producer, slot position) of a timestamp under a schedule
_block_producer_for_timestamp(ts, schedule) ==
    LET slot == _timestamp_to_slot(ts)
    IN <<schedule[((slot % (Len(schedule) * SlotsPerProducer)) \div SlotsPerProducer) + 1],
         slot % SlotsPerProducer>>

\* datetime.isoformat(): the seconds and the fraction; these pairs order as the strings do
isoformat(ts) == <<ts \div 1000, ts % 1000>>

parse_datetime(key) == key[1] * 1000 + key[2]

KeyLess(a, b) == a[1] < b[1] \/ (a[1] = b[1] /\ a[2] < b[2])

\* struct.pack('N', n): the eight bytes of n, lowest first
RECURSIVE Bytes(_, _)
Bytes(n, k) == IF k = 0 THEN <<>> ELSE <<n % 256>> \o Bytes(n \div 256, k - 1)

_format_schedule(n) == Bytes(n, 8)

-----------------------------------------------------------------------------
(* BlockSummary *)

NewBlockSummary ==
    [producers |-> EmptyMap, last_block_num |-> NoneNum, last_schedule_num |-> NoneNum]

\* producers[name] on a defaultdict(BpData)
ProducerData(summary, name) ==
    IF name \in DOMAIN summary.producers THEN summary.producers[name] ELSE NewBpData

TotalSlotsPassed(summary) ==
    SumOver([p \in DOMAIN summary.producers |-> slots_passed_total(summary.producers[p])],
            DOMAIN summary.producers)

TotalBlocksProduced(summary) ==
    SumOver([p \in DOMAIN summary.producers |-> blocks_produced_total(summary.producers[p])],
            DOMAIN summary.producers)

BlockSummary_sub(self, other) ==
    LET bp_data(name) == IF name \in DOMAIN other.producers
                         THEN BpData_sub(self.producers[name], other.producers[name])
                         ELSE self.producers[name]
        kept == { name \in DOMAIN self.producers : slots_passed_total(bp_data(name)) > 0 }
    IN [producers |-> [name \in kept |-> minify(bp_data(name))],
        last_block_num |-> self.last_block_num,
        last_schedule_num |-> self.last_schedule_num]

-----------------------------------------------------------------------------
(* The chain node.  A block as get_block returns it. *)

\* the producer lists the node's schedules hold, by version
ScheduleOfVersion(v) ==
    IF v = 0 THEN <<"eosio">>
    ELSE IF v % 2 = 1 THEN <<"bpa", "bpb">>
    ELSE <<"bpb", "bpc">>

NoNewProducers == [is_none |-> TRUE, version |-> 0, producers |-> NoneList]

NewProducers(v) ==
    [is_none |-> FALSE, version |-> v,
     producers |-> [i \in 1 .. Len(ScheduleOfVersion(v)) |->
                       [producer_name |-> ScheduleOfVersion(v)[i]]]]

Action(account, name) == [account |-> account, name |-> name]

\* a transaction whose trx is the structured object, and one whose trx is the packed string
DictTx(cpu, actions) == [cpu_usage_us |-> cpu, trx |-> [is_dict |-> TRUE, actions |-> actions]]

StrTx(cpu) == [cpu_usage_us |-> cpu, trx |-> [is_dict |-> FALSE, actions |-> <<>>]]

\* the transactions of block n: none in the odd blocks, three kinds in the even ones
TransactionsOf(n) ==
    IF n % 2 = 1 THEN <<>>
    ELSE <<DictTx(600, <<Action("testtesttest", "testmethod")>>),
           StrTx(300),
           DictTx(100, <<Action("testertester", "method2"),
                         Action("testtesttest", "testmethod")>>)>>

Block(n, ts, producer, version, new_producers, txs) ==
    [tag |-> "block", block_num |-> n, timestamp |-> ts, producer |-> producer,
     schedule_version |-> version, new_producers |-> new_producers, transactions |-> txs]

\* what a retry-wrapped RPC returns when it falls out of its loop
NoneValue == [tag |-> "None"]

\* the producer the node's schedule of version v owes the slot of ts to, and another one
ScheduledProducer(ts, v) == _block_producer_for_timestamp(ts, ScheduleOfVersion(v))[1]

OtherProducer(name) == IF name = "bpa" THEN "bpb" ELSE "bpa"

\* the timestamps the first block of the model may carry: around a multiple of SaveEvery slots
StartTimestamps == { (SaveEvery - 1) * SlotMillis, SaveEvery * SlotMillis }

\* the first block of the model: under schedule 0, or under schedule 1 (a start mid-chain)
StartBlocks ==
    { Block(StartingBlock, ts, ScheduledProducer(ts, v), v, NoNewProducers,
            TransactionsOf(StartingBlock)) :
        ts \in StartTimestamps, v \in {0, 1} }

\* The blocks that may follow block prev: after gap missed slots (gap in gaps), by the
\* scheduled producer or (when mismatches allows) by another, under prev's schedule
\* version or the next, with or without the announcement of the next version.
NextBlocks(prev, gaps, mismatches) ==
    { Block(prev.block_num + 1,
            prev.timestamp + (gap + 1) * SlotMillis,
            IF mismatch
                THEN OtherProducer(ScheduledProducer(prev.timestamp + (gap + 1) * SlotMillis, v))
                ELSE ScheduledProducer(prev.timestamp + (gap + 1) * SlotMillis, v),
            v, np, TransactionsOf(prev.block_num + 1)) :
        gap \in gaps,
        mismatch \in mismatches,
        v \in {prev.schedule_version, prev.schedule_version + 1},
        np \in {NoNewProducers, NewProducers(prev.schedule_version + 1)} }

-----------------------------------------------------------------------------
(* The aggregator.  Its state is the record                                *)
(*   [current_block, timestamp, block_db, schedule_db, exc]                *)
(* of the Database object's fields and stores; exc names the exception a   *)
(* method raised, "none" when it returned.                                 *)

DbState(cb, ts, bdb, sdb, e) ==
    [current_block |-> cb, timestamp |-> ts, block_db |-> bdb, schedule_db |-> sdb, exc |-> e]

_schedule(st, schedule_num) ==
    IF schedule_num = NoneNum THEN NoneList
    ELSE IF schedule_num = 0 THEN <<"eosio">>
    ELSE IF _format_schedule(schedule_num) \in DOMAIN st.schedule_db
         THEN st.schedule_db[_format_schedule(schedule_num)]
         ELSE NoneList

_save_schedule(st, schedule) ==
    [st EXCEPT !.schedule_db =
        MapPut(@, _format_schedule(schedule.version),
               [i \in 1 .. Len(schedule.producers) |-> schedule.producers[i].producer_name])]

\* whether _maybe_save_block writes, at the cursor ts
SaveDue(ts) == _timestamp_to_slot(ts) % SaveEvery = 0

_maybe_save_block(st) ==
    IF SaveDue(st.timestamp)
    THEN [st EXCEPT !.block_db = MapPut(@, isoformat(st.timestamp), st.current_block)]
    ELSE st

\* the slots from the cursor up to the block, the block's own slot included
SlotsUpTo(new_timestamp, last_timestamp) ==
    LET d == new_timestamp - last_timestamp
    IN IF d >= 0 THEN (d * 2) \div 1000 ELSE -((-d * 2) \div 1000)

\* int((new_timestamp - last_timestamp).total_seconds() * 2) - 1; int() rounds towards zero
SlotsMissed(new_timestamp, last_timestamp) ==
    LET d == new_timestamp - last_timestamp
    IN (IF d >= 0 THEN (d * 2) \div 1000 ELSE -((-d * 2) \div 1000)) - 1

\* one pass of the loop "for i in range(slots_missed)" of _handle_block
MissSlot(st, last_timestamp, i) ==
    LET schedule == _schedule(st, st.current_block.last_schedule_num)
    IN IF schedule # NoneList
       THEN LET missed_timestamp == last_timestamp + (i + 1) * SlotMillis
                ps == _block_producer_for_timestamp(missed_timestamp, schedule)
                cb == [st.current_block EXCEPT
                          !.producers = MapPut(@, ps[1],
                                               miss_block(ProducerData(st.current_block, ps[1]),
                                                          ps[2]))]
            IN _maybe_save_block([st EXCEPT !.timestamp = missed_timestamp,
                                            !.current_block = cb])
       ELSE st

\* The passes i .. slots_missed - 1 of the loop "for i in range(slots_missed)", in their
\* order: the first half of them, then the rest on the state the first half leaves.
RECURSIVE FillGaps(_, _, _, _)
FillGaps(st, last_timestamp, i, slots_missed) ==
    IF i >= slots_missed THEN st
    ELSE IF i + 1 = slots_missed THEN MissSlot(st, last_timestamp, i)
    ELSE LET half == i + ((slots_missed - i) \div 2)
             first == FillGaps(st, last_timestamp, i, half)
         IN IF first.exc # "none" THEN first
            ELSE FillGaps(first, last_timestamp, half, slots_missed)

\* the block counted for its producer, last_block_num left where it was
ApplyKeepingNumber(st, block) ==
    LET schedule == _schedule(st, block.schedule_version)
        slot_position == _block_producer_for_timestamp(block.timestamp, schedule)[2]
        cb == [st.current_block EXCEPT
                  !.producers = MapPut(@, block.producer,
                                       process_block(ProducerData(st.current_block,
                                                                  block.producer),
                                                     block, slot_position))]
    IN IF schedule = NoneList
       THEN [st EXCEPT !.exc = "TypeError"]
       ELSE [st EXCEPT !.current_block = cb, !.timestamp = block.timestamp]

\* lines 272-278 of _handle_block: the block itself
ApplyBlock(st, block) ==
    LET new_timestamp == block.timestamp
        schedule == _schedule(st, block.schedule_version)
    IN IF schedule = NoneList
       THEN [st EXCEPT !.exc = "TypeError"]     \* len(None) in _block_producer_for_timestamp
       ELSE LET slot_position == _block_producer_for_timestamp(new_timestamp, schedule)[2]
                cb == [producers |->
                          MapPut(st.current_block.producers, block.producer,
                                 process_block(ProducerData(st.current_block, block.producer),
                                               block, slot_position)),
                       last_schedule_num |-> block.schedule_version,
                       last_block_num |-> block.block_num]
            IN [_maybe_save_block([st EXCEPT !.current_block = cb])
                   EXCEPT !.timestamp = new_timestamp]

\* the schedule of the block saved last, after the lookups
SaveScheduleLast(st, block) ==
    IF block.tag = "None"
    THEN [st EXCEPT !.exc = "TypeError"]
    ELSE LET filled == FillGaps(st, st.timestamp, 0,
                                SlotsMissed(block.timestamp, st.timestamp))
             handled == ApplyBlock(filled, block)
         IN IF ~block.new_producers.is_none
            THEN _save_schedule(handled, block.new_producers)
            ELSE handled

_handle_block(st, block) ==
    IF block.tag = "None"
    THEN [st EXCEPT !.exc = "TypeError"]        \* None['timestamp']
    ELSE LET saved == IF ~block.new_producers.is_none
                      THEN _save_schedule(st, block.new_producers)
                      ELSE st
             filled == FillGaps(saved, st.timestamp, 0,
                                SlotsMissed(block.timestamp, st.timestamp))
         IN ApplyBlock(filled, block)

\* the greatest key of block_db, where cursor.last() stands
LastKey(bdb) == CHOOSE k \in DOMAIN bdb : \A j \in DOMAIN bdb : j = k \/ KeyLess(j, k)

\* a start that seeds from the starting block whatever the store holds
SeedAlways(st, block_data) ==
    IF block_data.tag = "None"
    THEN [st EXCEPT !.exc = "TypeError"]
    ELSE LET block == [NewBlockSummary EXCEPT
                          !.last_block_num = StartingBlock,
                          !.last_schedule_num = block_data.schedule_version]
         IN [st EXCEPT !.timestamp = block_data.timestamp,
                       !.current_block = block,
                       !.block_db = MapPut(@, isoformat(block_data.timestamp), block)]

\* _init_block, block_data being what _get_block(starting_block) returned
_init_block(st, block_data) ==
    IF DOMAIN st.block_db # {}
    THEN [st EXCEPT !.timestamp = parse_datetime(LastKey(st.block_db)),
                    !.current_block = st.block_db[LastKey(st.block_db)]]
    ELSE IF block_data.tag = "None"
    THEN [st EXCEPT !.exc = "TypeError"]        \* None['timestamp']
    ELSE LET block == [NewBlockSummary EXCEPT
                          !.last_block_num = StartingBlock,
                          !.last_schedule_num = block_data.schedule_version]
         IN [st EXCEPT !.timestamp = block_data.timestamp,
                       !.current_block = block,
                       !.block_db = MapPut(@, isoformat(block_data.timestamp), block)]

-----------------------------------------------------------------------------
(* The retry wrapper.  _backoff is a generator: its body, statement by     *)
(* statement.  _with_backoff runs "for _ in _backoff(): try: return        *)
(* wrapped() except (URLError, HTTPException, ConnectionError): ...".      *)

Yield == [op |-> "yield", secs |-> 0]

Sleep(secs) == [op |-> "sleep", secs |-> secs]

_backoff ==
    << Yield, Sleep(5), Yield, Sleep(10), Yield, Sleep(15), Yield, Sleep(20), Yield,
       Sleep(30), Yield, Sleep(60), Yield, Sleep(120), Yield, Sleep(300), Yield, Sleep(900) >>

\* What one call of the wrapped function does: it answers ("ok"), or raises one of the
\* exceptions the wrapper catches ("caught": URLError, HTTPException, ConnectionError), or
\* raises any other ("uncaught": json.loads on a truncated body, a timeout while reading).
Outcomes == {"ok", "caught", "uncaught"}

\* A call of a wrapped function in progress: ip is the statement of _backoff the generator
\* resumes at, events the sleeps (their seconds) and the attempts (AttemptMark) so far.
AttemptMark == -1

NewCall(name, arg) ==
    [name |-> name, arg |-> arg, ip |-> 1, status |-> "running", value |-> NoneValue,
     attempts |-> 0, events |-> <<>>]

\* next(generator): run the sleeps from ip on, up to the next yield or the end of the body
RECURSIVE ResumeGenerator(_)
ResumeGenerator(call) ==
    IF call.ip > Len(_backoff) THEN call
    ELSE IF _backoff[call.ip].op = "yield" THEN call
    ELSE ResumeGenerator([call EXCEPT !.ip = @ + 1,
                                      !.events = Append(@, _backoff[call.ip].secs)])

\* One pass of the for loop of _with_backoff, the wrapped function doing `outcome` and
\* answering `value` when it answers.
_with_backoff_pass(call, outcome, value) ==
    LET resumed == ResumeGenerator(call)
    IN IF resumed.ip > Len(_backoff)
       THEN [resumed EXCEPT !.status = "returned", !.value = NoneValue]  \* falls out of the loop
       ELSE LET tried == [resumed EXCEPT !.ip = @ + 1, !.attempts = @ + 1,
                                         !.events = Append(@, AttemptMark)]
            IN CASE outcome = "ok" -> [tried EXCEPT !.status = "returned", !.value = value]
                 [] outcome = "caught" -> tried
                 [] OTHER -> [tried EXCEPT !.status = "raised"]

\* The whole call, the wrapped function failing `failures` times with a caught exception
\* and then doing `final`.
RECURSIVE RunCall(_, _, _, _)
RunCall(call, failures, final, value) ==
    IF call.status # "running" THEN call
    ELSE IF failures > 0
         THEN RunCall(_with_backoff_pass(call, "caught", value), failures - 1, final, value)
         ELSE RunCall(_with_backoff_pass(call, final, value), 0, final, value)

_with_backoff(name, arg, failures, final, value) ==
    RunCall(NewCall(name, arg), failures, final, value)

\* how often in a row a wrapped function may fail: not at all, once, or MaxFailures times
FailureCounts == {0, 1, MaxFailures}

\* what the node answers to the two RPCs
NodeAnswer(name, arg) ==
    IF name = "get_info" THEN [tag |-> "info", num |-> Len(chain)] ELSE chain[arg]

\* the two wrapped RPCs against the node
_last_irreversible_block_number(failures, final) ==
    _with_backoff("get_info", 0, failures, final, NodeAnswer("get_info", 0))

_get_block(n, failures, final) ==
    _with_backoff("get_block", n, failures, final, NodeAnswer("get_block", n))

-----------------------------------------------------------------------------
(* The process: its fields and stores as one aggregator state, and back *)

Db == DbState(current_block, timestamp, block_db, schedule_db, exc)

SetDb(st) ==
    /\ current_block' = st.current_block
    /\ timestamp' = st.timestamp
    /\ block_db' = st.block_db
    /\ schedule_db' = st.schedule_db
    /\ exc' = st.exc

\* a Database object just constructed on the stores bdb and sdb
FreshDb(bdb, sdb) == DbState(NewBlockSummary, 0, bdb, sdb, "none")

\* None where a query takes a datetime
NoTime == -1

\* no query has been made
NoReply == [op |-> "none", start |-> NoTime, end |-> NoTime, step |-> 0,
            status |-> "idle", exc |-> "none", value |-> <<>>]

\* no caller of the library
NoObjects == <<>>

\* no call of a wrapped RPC is being followed
NoCall == [NewCall("none", 0) EXCEPT !.status = "idle"]

Init ==
    /\ utcoffset = UTC
    /\ chain \in { <<b>> : b \in StartBlocks }
    /\ pc = "start"
    /\ current_block = NewBlockSummary
    /\ timestamp = 0
    /\ block_db = EmptyMap
    /\ schedule_db = EmptyMap
    /\ exc = "none"
    /\ _stopped = FALSE
    /\ tasks = EmptyMap
    /\ rpc = NoCall
    /\ reply = NoReply
    /\ objects = NoObjects
    /\ applied = <<>>
    /\ finished = <<>>

\* the node makes one more block irreversible: a block by the scheduled producer after
\* up to MaxGap missed slots, or a block by another producer following at once
NodeProduce ==
    /\ Len(chain) < MaxBlock
    /\ \E b \in NextBlocks(chain[Len(chain)], 0 .. MaxGap, {FALSE})
                 \cup NextBlocks(chain[Len(chain)], {0}, {TRUE}) : chain' = Append(chain, b)
    /\ UNCHANGED <<pc, dbVars, _stopped, poolVars, rpc, reply, hostVars, applied>>

\* the same, the block following at once and by the scheduled producer
NodeProducePlain ==
    /\ Len(chain) < MaxBlock
    /\ \E b \in NextBlocks(chain[Len(chain)], {0}, {FALSE}) : chain' = Append(chain, b)
    /\ UNCHANGED <<pc, dbVars, _stopped, poolVars, rpc, reply, hostVars, applied>>

\* the process is killed and started again: the fields are lost, the stores stay
Restart ==
    /\ pc # "start"
    /\ pc' = "start"
    /\ SetDb(FreshDb(block_db, schedule_db))
    /\ _stopped' = FALSE
    /\ tasks' = EmptyMap
    /\ applied' = <<>>
    /\ finished' = <<>>
    /\ UNCHANGED <<chain, rpc, reply, hostVars>>

-----------------------------------------------------------------------------
(* The aggregator fed in block order, every RPC answering at once *)

AggStart ==
    /\ pc = "start"
    /\ LET st == _init_block(Db, _get_block(StartingBlock, 0, "ok").value)
       IN /\ SetDb(st)
          /\ pc' = IF st.exc = "none" THEN "loop" ELSE "raised"
    /\ UNCHANGED <<chain, _stopped, poolVars, rpc, reply, hostVars, applied>>

AggApply ==
    /\ pc = "loop"
    /\ current_block.last_block_num < Len(chain)
    /\ LET st == _handle_block(Db, _get_block(current_block.last_block_num + 1, 0, "ok").value)
       IN /\ SetDb(st)
          /\ pc' = IF st.exc = "none" THEN "loop" ELSE "raised"
    /\ applied' = Append(applied, current_block.last_block_num + 1)
    /\ UNCHANGED <<chain, _stopped, poolVars, rpc, reply, hostVars>>

\* The process is killed inside _handle_block and started again: of the writes of the
\* call the stores keep the schedule and the snapshots of the first `done` imputed slots.
KilledInApply ==
    /\ pc = "loop"
    /\ current_block.last_block_num < Len(chain)
    /\ LET block == chain[current_block.last_block_num + 1]
           saved == IF ~block.new_producers.is_none
                    THEN _save_schedule(Db, block.new_producers)
                    ELSE Db
           slots_missed == SlotsMissed(block.timestamp, timestamp)
       IN \E done \in 0 .. (IF slots_missed > 0 THEN slots_missed ELSE 0) :
             LET part == FillGaps(saved, timestamp, 0, done)
             IN SetDb(FreshDb(part.block_db, part.schedule_db))
    /\ pc' = "start"
    /\ applied' = <<>>
    /\ UNCHANGED <<chain, _stopped, poolVars, rpc, reply, hostVars>>

NextAgg == NodeProduce \/ AggStart \/ AggApply \/ Restart \/ KilledInApply

SpecAgg == Init /\ [][NextAgg]_vars

-----------------------------------------------------------------------------
(* The aggregator and the schedule store: the node may also send a block   *)
(* whose new_producers carries version 0.                                  *)

\* a new_producers of version 0
ZeroProducers ==
    [is_none |-> FALSE, version |-> 0,
     producers |-> <<[producer_name |-> "bpa"], [producer_name |-> "bpb"]>>]

NodeProduceSched ==
    /\ Len(chain) < MaxBlock
    /\ \E b \in NextBlocks(chain[Len(chain)], {0, 1}, {FALSE}),
          np \in {NoNewProducers, ZeroProducers} :
         chain' = Append(chain, IF np.is_none THEN b ELSE [b EXCEPT !.new_producers = np])
    /\ UNCHANGED <<pc, dbVars, _stopped, poolVars, rpc, reply, hostVars, applied>>

NextSched == NodeProduceSched \/ AggStart \/ AggApply \/ Restart

SpecSched == Init /\ [][NextSched]_vars

-----------------------------------------------------------------------------
(* Database.run: the driver thread and the workers of its ThreadPool *)

\* what the exception of a finished call does to the aggregator state
Raise(st, name) == [st EXCEPT !.exc = name]

\* The task of a get_block call handed to the pool: queued, running, done (its result
\* waits for the iterator) or taken; status and value are how the call ended.
QueuedTask == [state |-> "queued", status |-> "running", value |-> NoneValue]

DoneTask(call) == [state |-> "done", status |-> call.status, value |-> call.value]

\* what executor.imap_unordered would yield next: any result that is ready
ImapUnordered(ts) == { n \in DOMAIN ts : ts[n].state = "done" }

\* the task whose result the iterator of executor.imap yields next: the first not yet taken
ImapNext(ts) ==
    { n \in DOMAIN ts : /\ ts[n].state = "done"
                        /\ \A m \in DOMAIN ts : m < n => ts[m].state = "taken" }

\* no limit on the blocks of one batch
Uncapped(a, b) == a

Min(a, b) == IF a < b THEN a ELSE b

\* lines 216-217: self._stopped = False; self._init_block(starting_block).  Here and below
\* the wrapped function fails `failures` times in a row and then does `final`.
RunBeginOn(failureCounts, finals) ==
    /\ pc = "start"
    /\ _stopped' = FALSE
    /\ \E failures \in failureCounts, final \in finals :
         LET call == _get_block(StartingBlock, failures, final)
             st == IF DOMAIN block_db = {} /\ call.status = "raised"
                   THEN Raise(Db, "RpcError")
                   ELSE _init_block(Db, call.value)
         IN /\ SetDb(st)
            /\ pc' = IF st.exc = "none" THEN "loop" ELSE "raised"
    /\ UNCHANGED <<chain, poolVars, rpc, reply, hostVars, applied>>

\* line 220, self._stopped being set: the loop and run() end
LoopExit ==
    /\ pc = "loop"
    /\ _stopped
    /\ pc' = "returned"
    /\ UNCHANGED <<chain, dbVars, _stopped, poolVars, rpc, reply, hostVars, applied>>

\* lines 220-230 and 233: get_info, then either the tasks of executor.imap or the sleep
LoopBodyOn(failureCounts, finals) ==
    /\ pc = "loop"
    /\ ~_stopped
    /\ \E failures \in failureCounts, final \in finals :
         LET call == _last_irreversible_block_number(failures, final)
             last == current_block.last_block_num
         IN IF call.status = "raised"
            THEN /\ SetDb(Raise(Db, "RpcError"))
                 /\ pc' = "raised"
                 /\ UNCHANGED poolVars
            ELSE IF call.value.tag = "None"
            THEN /\ SetDb(Raise(Db, "TypeError"))       \* min(None, last + 1000)
                 /\ pc' = "raised"
                 /\ UNCHANGED poolVars
            ELSE IF call.value.num # last
            THEN LET block_num == Min(call.value.num, last + BatchLimit)
                 IN /\ tasks' = [n \in (last + 1) .. block_num |-> QueuedTask]
                    /\ finished' = <<>>
                    /\ pc' = IF last + 1 <= block_num THEN "fetch" ELSE "loop"
                    /\ UNCHANGED dbVars
            ELSE /\ pc' = "sleep"
                 /\ UNCHANGED <<dbVars, poolVars>>
    /\ UNCHANGED <<chain, _stopped, rpc, reply, hostVars, applied>>

\* line 233: time.sleep(1.0) is over
Wake ==
    /\ pc = "sleep"
    /\ pc' = "loop"
    /\ UNCHANGED <<chain, dbVars, _stopped, poolVars, rpc, reply, hostVars, applied>>

\* a pool with a thread for every task: the next queued task starts at once
WorkerStartUnbounded ==
    /\ pc = "fetch"
    /\ \E n \in DOMAIN tasks :
         /\ tasks[n].state = "queued"
         /\ \A m \in DOMAIN tasks : m < n => tasks[m].state # "queued"
         /\ tasks' = [tasks EXCEPT ![n].state = "running"]
    /\ UNCHANGED <<chain, pc, dbVars, _stopped, rpc, reply, hostVars, applied, finished>>

\* a worker of the pool takes the next queued task
WorkerStart ==
    /\ pc = "fetch"
    /\ \E n \in DOMAIN tasks :
         /\ tasks[n].state = "queued"
         /\ \A m \in DOMAIN tasks : m < n => tasks[m].state # "queued"
         /\ Cardinality({m \in DOMAIN tasks : tasks[m].state = "running"}) < PoolSize
         /\ tasks' = [tasks EXCEPT ![n].state = "running"]
    /\ UNCHANGED <<chain, pc, dbVars, _stopped, rpc, reply, hostVars, applied, finished>>

\* a worker's self._get_block(n) ends: with the block, with None, or with an exception
WorkerFinishOn(failureCounts, finals) ==
    /\ pc = "fetch"
    /\ \E n \in DOMAIN tasks :
         /\ tasks[n].state = "running"
         /\ \E failures \in failureCounts, final \in finals :
              tasks' = [tasks EXCEPT ![n] = DoneTask(_get_block(n, failures, final))]
         /\ finished' = Append(finished, n)
    /\ UNCHANGED <<chain, pc, dbVars, _stopped, rpc, reply, hostVars, applied>>

\* lines 228-231: the for loop takes the next result of imap and handles it
Consume ==
    /\ pc = "fetch"
    /\ \E n \in ImapNext(tasks) :
         LET result == tasks[n]
             st == IF result.status = "raised" THEN Raise(Db, "RpcError")
                   ELSE _handle_block(Db, result.value)
             left == { m \in DOMAIN tasks : m # n /\ tasks[m].state # "taken" }
         IN /\ SetDb(st)
            /\ applied' = IF result.status = "returned" /\ result.value.tag = "block"
                          THEN Append(applied, result.value.block_num)
                          ELSE applied
            /\ IF st.exc # "none"
               THEN pc' = "raised" /\ tasks' = EmptyMap /\ finished' = <<>>
               ELSE IF left = {}
               THEN pc' = "loop" /\ tasks' = EmptyMap /\ finished' = finished
               ELSE pc' = "fetch" /\ tasks' = [tasks EXCEPT ![n].state = "taken"]
                                  /\ finished' = finished
    /\ UNCHANGED <<chain, _stopped, rpc, reply, hostVars>>

\* Database.stop(), called by another thread
Stop ==
    /\ ~_stopped
    /\ pc \notin {"returned", "raised"}
    /\ _stopped' = TRUE
    /\ UNCHANGED <<chain, pc, dbVars, poolVars, rpc, reply, hostVars, applied>>

RunBegin == RunBeginOn(FailureCounts, {"ok", "uncaught"})

LoopBody == LoopBodyOn(FailureCounts, {"ok", "uncaught"})

WorkerFinish == WorkerFinishOn(FailureCounts, {"ok", "uncaught"})

Next ==
    \/ NodeProducePlain
    \/ RunBegin \/ LoopExit \/ LoopBody \/ Wake
    \/ WorkerStart \/ WorkerFinish \/ Consume
    \/ Stop \/ Restart

Spec == Init /\ [][Next]_vars

-----------------------------------------------------------------------------
(* The tailer on a well-formed chain and a network that fails only for a   *)
(* while: no RPC fails often enough to exhaust its retries, nobody calls   *)
(* stop(), the process is not killed.  The driver thread and the workers   *)
(* keep running (weak fairness).                                           *)

BriefFailures == {0, 1}

InitLive == Init /\ chain[StartingBlock].schedule_version = 0

\* the node makes one more block irreversible; a new schedule version comes announced
NodeProduceAnnounced ==
    /\ Len(chain) < MaxBlock
    /\ \E b \in NextBlocks(chain[Len(chain)], {0}, {FALSE}) :
         /\ b.schedule_version # chain[Len(chain)].schedule_version => ~b.new_producers.is_none
         /\ chain' = Append(chain, b)
    /\ UNCHANGED <<pc, dbVars, _stopped, poolVars, rpc, reply, hostVars, applied>>

RunBeginLive == RunBeginOn(BriefFailures, {"ok", "uncaught"})

LoopBodyLive == LoopBodyOn(BriefFailures, {"ok", "uncaught"})

WorkerFinishLive == WorkerFinishOn(BriefFailures, {"ok", "uncaught"})

DriverLive == RunBeginLive \/ LoopBodyLive \/ Wake \/ Consume

WorkersLive == WorkerStart \/ WorkerFinishLive

NextLive == NodeProduceAnnounced \/ DriverLive \/ WorkersLive

LiveSpec ==
    InitLive /\ [][NextLive]_vars /\ WF_vars(DriverLive) /\ WF_vars(WorkersLive)

-----------------------------------------------------------------------------
(* The tailer and the thread that calls stop(): server.py starts the thread *)
(* of Database.run and calls db.stop() when the web server ends.  Both     *)
(* threads keep running (weak fairness); the process is not killed.        *)

DriverStop == RunBegin \/ LoopExit \/ LoopBody \/ Wake \/ Consume

WorkersStop == WorkerStart \/ WorkerFinish

NextStop == NodeProducePlain \/ DriverStop \/ WorkersStop \/ Stop

StopSpec == Init /\ [][NextStop]_vars /\ WF_vars(DriverStop) /\ WF_vars(WorkersStop)

-----------------------------------------------------------------------------
(* The tailer behind a node that is more blocks ahead than the pool has    *)
(* threads, or not ahead at all: a chain under schedule 0, one block per   *)
(* slot, irreversible before the tailer starts.                            *)

\* the blocks by which the longest such chain exceeds one round of the pool
ExtraTasks == 1

PlainChain(n) ==
    [i \in 1 .. n |->
        Block(i, (SaveEvery + i - 1) * SlotMillis, "eosio", 0, NoNewProducers,
              TransactionsOf(i))]

InitPool ==
    /\ utcoffset = UTC
    /\ chain \in { PlainChain(n) : n \in {StartingBlock, StartingBlock + PoolSize + ExtraTasks} }
    /\ pc = "start"
    /\ current_block = NewBlockSummary
    /\ timestamp = 0
    /\ block_db = EmptyMap
    /\ schedule_db = EmptyMap
    /\ exc = "none"
    /\ _stopped = FALSE
    /\ tasks = EmptyMap
    /\ rpc = NoCall
    /\ reply = NoReply
    /\ objects = NoObjects
    /\ applied = <<>>
    /\ finished = <<>>

RunBeginPool == RunBeginOn({0}, {"ok", "uncaught"})

LoopBodyPool == LoopBodyOn({0}, {"ok", "uncaught"})

\* a worker's self._get_block(n) ends; the order of completion is not recorded here
WorkerFinishPool ==
    /\ pc = "fetch"
    /\ \E n \in DOMAIN tasks :
         /\ tasks[n].state = "running"
         /\ \E final \in {"ok", "uncaught"} :
              tasks' = [tasks EXCEPT ![n] = DoneTask(_get_block(n, 0, final))]
    /\ UNCHANGED <<chain, pc, dbVars, _stopped, rpc, reply, hostVars, applied, finished>>

NextPool ==
    \/ RunBeginPool \/ LoopExit \/ LoopBodyPool \/ Wake
    \/ WorkerStart \/ WorkerFinishPool \/ Consume
    \/ Stop

SpecPool == InitPool /\ [][NextPool]_vars

-----------------------------------------------------------------------------
(* The tailer behind a node that is more than a batch ahead.  The body of  *)
(* the while loop is two steps: get_info with the tasks of executor.imap   *)
(* (LoopBodyOn), then the for loop over all the results (BatchRun).        *)

\* the blocks by which the longest chain exceeds the first full batch
FarBlocks == 2

\* the lengths of the node's chain: the tailer's start, and around one batch after it
ChainLengths ==
    { StartingBlock + d : d \in 0 .. 1 }
        \cup { StartingBlock + BatchLimit + d : d \in (0 - 1) .. FarBlocks }

InitBatch ==
    /\ utcoffset = UTC
    /\ chain = PlainChain(StartingBlock)
    /\ pc = "start"
    /\ current_block = NewBlockSummary
    /\ timestamp = 0
    /\ block_db = EmptyMap
    /\ schedule_db = EmptyMap
    /\ exc = "none"
    /\ _stopped = FALSE
    /\ tasks = EmptyMap
    /\ rpc = NoCall
    /\ reply = NoReply
    /\ objects = NoObjects
    /\ applied = <<>>
    /\ finished = <<>>

\* further blocks become irreversible at the node
NodeProduceMany ==
    /\ \E n \in ChainLengths : n > Len(chain) /\ chain' = PlainChain(n)
    /\ UNCHANGED <<pc, dbVars, _stopped, poolVars, rpc, reply, hostVars, applied>>

RunBeginBatch == RunBeginOn({0}, {"ok"})

LoopBodyBatch == LoopBodyOn({0}, {"ok", "uncaught"})

\* lines 228-231 for blocks lo .. hi, every get_block answering: _handle_block on each
\* result, in the order of imap, up to the first exception
RECURSIVE HandleAll(_, _, _)
HandleAll(st, lo, hi) ==
    IF lo > hi THEN st
    ELSE IF lo = hi THEN _handle_block(st, chain[lo])
    ELSE LET mid == (lo + hi) \div 2
             first == HandleAll(st, lo, mid)
         IN IF first.exc # "none" THEN first ELSE HandleAll(first, mid + 1, hi)

\* lines 228-231, the whole for loop: every result is handled, or get_block(fail) ends
\* with an exception, which the iterator of imap raises after the blocks before it
BatchRun ==
    /\ pc = "fetch"
    /\ LET lo == CHOOSE n \in DOMAIN tasks : \A m \in DOMAIN tasks : n <= m
           hi == CHOOSE n \in DOMAIN tasks : \A m \in DOMAIN tasks : m <= n
       IN \E fail \in {NoneNum, lo, hi} :
            LET upto == IF fail = NoneNum THEN hi ELSE fail - 1
                done == HandleAll(Db, lo, upto)
                st == IF fail = NoneNum \/ done.exc # "none" THEN done
                      ELSE Raise(done, "RpcError")
            IN /\ SetDb(st)
               /\ applied' = applied \o [i \in 1 .. st.current_block.last_block_num - (lo - 1)
                                            |-> lo - 1 + i]
               /\ pc' = IF st.exc = "none" THEN "loop" ELSE "raised"
    /\ tasks' = EmptyMap
    /\ finished' = <<>>
    /\ UNCHANGED <<chain, _stopped, rpc, reply, hostVars>>

NextBatch ==
    \/ NodeProduceMany
    \/ RunBeginBatch \/ LoopExit \/ LoopBodyBatch \/ Wake
    \/ BatchRun
    \/ Stop

SpecBatch == InitBatch /\ [][NextBatch]_vars

-----------------------------------------------------------------------------
(* One call of a retry-wrapped RPC, pass by pass of the for loop *)

CallBegin ==
    /\ rpc.status = "idle"
    /\ \/ rpc' = NewCall("get_info", 0)
       \/ \E n \in 1 .. Len(chain) : rpc' = NewCall("get_block", n)
    /\ UNCHANGED <<chain, pc, dbVars, _stopped, poolVars, applied, reply, hostVars>>

CallPass ==
    /\ rpc.status = "running"
    /\ \E outcome \in Outcomes :
         rpc' = _with_backoff_pass(rpc, outcome, NodeAnswer(rpc.name, rpc.arg))
    /\ UNCHANGED <<chain, pc, dbVars, _stopped, poolVars, applied, reply, hostVars>>

NextBackoff == CallBegin \/ CallPass

SpecBackoff == Init /\ [][NextBackoff]_vars

-----------------------------------------------------------------------------
(* The queries of the snapshot store *)

\* the keys strictly after t
KeysAfter(bdb, t) == { k \in DOMAIN bdb : KeyLess(isoformat(t), k) }

\* where cursor.set_range(t.isoformat()) may stand: the keys at or after t
KeysFrom(bdb, t) == { k \in DOMAIN bdb : ~KeyLess(k, isoformat(t)) }

\* the least key of a set of keys: where cursor.first() and a set_range that succeeds stand
FirstKey(keys) == CHOOSE k \in keys : \A j \in keys : j = k \/ KeyLess(k, j)

Returned(value) == [status |-> "returned", exc |-> "none", value |-> value]

Raised(name) == [status |-> "raised", exc |-> name, value |-> <<>>]

\* Database.fetch_single; pickle.loads(b'') of an unpositioned cursor raises EOFError
fetch_single(bdb, start, end) ==
    LET first_at == IF start = NoTime THEN DOMAIN bdb ELSE KeysFrom(bdb, start)
    IN IF first_at = {}
       THEN IF start = NoTime THEN Raised("EOFError") ELSE Raised("Exception")
       ELSE LET first_block == bdb[FirstKey(first_at)]
                last_at == IF end = NoTime THEN {LastKey(bdb)} ELSE KeysFrom(bdb, end)
            IN IF last_at = {}
               THEN Raised("Exception")
               ELSE Returned(BlockSummary_sub(bdb[FirstKey(last_at)], first_block))

\* one pass of that loop only
RangeLoopOnce(bdb, last_key, end, step, result) ==
    LET next_at == KeysFrom(bdb, parse_datetime(last_key) + step)
    IN IF next_at = {} THEN result
       ELSE LET next_key == FirstKey(next_at)
                next_time == parse_datetime(next_key)
            IN IF end # NoTime /\ next_time > end THEN result
               ELSE Append(result, [key |-> next_time,
                                    value |-> BlockSummary_sub(bdb[next_key], bdb[last_key])])

\* the while loop of fetch_by_time_range, the cursor having stood at last_key; result is
\* the dict so far, its items in the order they were put
RECURSIVE RangeLoop(_, _, _, _, _)
RangeLoop(bdb, last_key, end, step, result) ==
    LET next_at == KeysFrom(bdb, parse_datetime(last_key) + step)
    IN IF next_at = {} THEN result
       ELSE LET next_key == FirstKey(next_at)
                next_time == parse_datetime(next_key)
            IN IF end # NoTime /\ next_time > end THEN result
               ELSE RangeLoop(bdb, next_key, end, step,
                              Append(result, [key |-> next_time,
                                              value |-> BlockSummary_sub(bdb[next_key], bdb[last_key])]))

\* Database.fetch_by_time_range; parse_datetime('') of an unpositioned cursor raises ValueError
fetch_by_time_range(bdb, start, end, step) ==
    IF start = NoTime /\ DOMAIN bdb = {}
    THEN Raised("ValueError")
    ELSE LET from == IF start = NoTime THEN parse_datetime(FirstKey(DOMAIN bdb)) ELSE start
         IN IF KeysFrom(bdb, from) = {}
            THEN Returned(<<>>)
            ELSE Returned(RangeLoop(bdb, FirstKey(KeysFrom(bdb, from)), end, step, <<>>))

\* the bounds a query may carry: none, and the times at and next to the keys of the store
QueryTimes ==
    {NoTime, SaveEvery * SlotMillis}
      \cup UNION { {parse_datetime(k) - SlotMillis, parse_datetime(k), parse_datetime(k) + SlotMillis} :
                   k \in DOMAIN block_db }

\* the steps a range query may carry: one slot, and the default of 21 minutes
QuerySteps == {SlotMillis, SaveEvery * SlotMillis}

\* the node's next block under the schedule in force: at once, or after an outage of two
\* snapshot intervals
NodeProduceFar ==
    /\ Len(chain) < MaxBlock
    /\ \E b \in NextBlocks(chain[Len(chain)], {0, 2 * SaveEvery}, {FALSE}) :
         /\ b.schedule_version = chain[Len(chain)].schedule_version
         /\ b.new_producers.is_none
         /\ chain' = Append(chain, b)
    /\ UNCHANGED <<pc, dbVars, _stopped, poolVars, rpc, applied, reply, hostVars>>

FetchSingle ==
    /\ reply = NoReply
    /\ \E start \in QueryTimes, end \in QueryTimes :
         LET res == fetch_single(block_db, start, end)
         IN reply' = [op |-> "fetch_single", start |-> start, end |-> end, step |-> 0,
                      status |-> res.status, exc |-> res.exc, value |-> res.value]
    /\ UNCHANGED <<chain, pc, dbVars, _stopped, poolVars, rpc, applied, hostVars>>

FetchByTimeRange ==
    /\ reply = NoReply
    /\ \E start \in QueryTimes, end \in QueryTimes, step \in QuerySteps :
         LET res == fetch_by_time_range(block_db, start, end, step)
         IN reply' = [op |-> "fetch_by_time_range", start |-> start, end |-> end, step |-> step,
                      status |-> res.status, exc |-> res.exc, value |-> res.value]
    /\ UNCHANGED <<chain, pc, dbVars, _stopped, poolVars, rpc, applied, hostVars>>

\* Queries read the stores only, so ingestion is followed from the states without a reply.
IngestQuery == reply = NoReply /\ (NodeProduceFar \/ AggStart \/ AggApply)

NextQuery == IngestQuery \/ FetchSingle \/ FetchByTimeRange

SpecQuery == Init /\ [][NextQuery]_vars

-----------------------------------------------------------------------------
(* The library functions called on their own.  A caller holds its          *)
(* arguments in `objects` and gets the outcome of the call in `reply`; the *)
(* tailer does not run.  Here the host may be in any time zone.            *)

\* the offsets of the host's local time from UTC: UTC, one hour east, five hours west
HostOffsets == {UTC, 3600 * 1000, (0 - 5) * 3600 * 1000}

\* the state of a process that only calls the library
Idle ==
    /\ chain = PlainChain(StartingBlock)
    /\ pc = "start"
    /\ current_block = NewBlockSummary
    /\ timestamp = 0
    /\ block_db = EmptyMap
    /\ schedule_db = EmptyMap
    /\ exc = "none"
    /\ _stopped = FALSE
    /\ tasks = EmptyMap
    /\ rpc = NoCall
    /\ reply = NoReply
    /\ applied = <<>>
    /\ finished = <<>>

\* what a call that returned value, or raised the exception name, leaves in reply
Called(op, res) ==
    [NoReply EXCEPT !.op = op, !.status = res.status, !.exc = res.exc, !.value = res.value]

idleVars == <<chain, pc, dbVars, _stopped, poolVars, rpc, applied, utcoffset>>

-----------------------------------------------------------------------------
(* _block_producer_for_timestamp under a schedule of 21 producers *)

\* the slots on either side of the epoch the lookup is called for
MaxSlot == 260

Schedule21 == [i \in 1 .. 21 |-> <<"producer", i>>]

InitRotation ==
    /\ utcoffset \in HostOffsets
    /\ Idle
    /\ \E k \in (0 - MaxSlot) .. MaxSlot : objects = [k |-> k, schedule |-> Schedule21]

\* _block_producer_for_timestamp(2000-01-01T00:00:00 + k * 0.5 s, schedule)
Lookup ==
    /\ reply = NoReply
    /\ reply' = Called("_block_producer_for_timestamp",
                       Returned(_block_producer_for_timestamp(
                                    EpochOrigin + objects.k * SlotMillis, objects.schedule)))
    /\ UNCHANGED <<idleVars, objects>>

NextRotation == Lookup

SpecRotation == InitRotation /\ [][NextRotation]_vars

-----------------------------------------------------------------------------
(* Stats, as the test of the repository uses it: `instance` observes the   *)
(* values A, instance2 = copy.deepcopy(instance) observes the values B     *)
(* after them; `later` is a Stats of its own that observes B only.         *)

\* the observations of one caller
MaxObs == 3

\* cpu times: just below and on the first two bucket boundaries, inside, on the last
ObservedValues ==
    { _timing_buckets[1] - 1, _timing_buckets[1], _timing_buckets[2] - 1, _timing_buckets[2],
      600, _timing_buckets[Len(_timing_buckets)] }

\* the levels q a quantile is asked for
Quantiles == { <<0, 1>>, <<1, 4>>, <<1, 3>>, <<1, 2>>, <<3, 4>>, <<1, 1>> }

StatsNames == {"instance", "instance2", "later", "diff", "sum", "zero"}

\* the Stats a call is made on
StatsOf(o, name) ==
    CASE name = "instance" -> o.instance
      [] name = "instance2" -> o.instance2
      [] name = "later" -> o.later
      [] name = "diff" -> Stats_sub(o.instance2, o.instance)
      [] name = "sum" -> Stats_add(o.instance, o.later)
      [] name = "zero" -> Stats_sub(o.instance, o.instance)

InitStats ==
    /\ utcoffset = UTC
    /\ Idle
    /\ objects = [A |-> <<>>, B |-> <<>>, instance |-> NewStats, instance2 |-> NewStats,
                  later |-> NewStats, on |-> "none", q |-> <<0, 1>>]

\* instance.observe(x), before the copy is taken
ObserveFirst ==
    /\ reply = NoReply
    /\ objects.B = <<>>
    /\ Len(objects.A) < MaxObs
    /\ \E x \in ObservedValues :
         objects' = [objects EXCEPT !.A = Append(@, x),
                                    !.instance = observe(@, x),
                                    !.instance2 = observe(@, x)]
    /\ UNCHANGED <<idleVars, reply>>

\* instance2.observe(x) on the copy, and later.observe(x)
ObserveSecond ==
    /\ reply = NoReply
    /\ Len(objects.A) + Len(objects.B) < MaxObs
    /\ \E x \in ObservedValues :
         objects' = [objects EXCEPT !.B = Append(@, x),
                                    !.instance2 = observe(@, x),
                                    !.later = observe(@, x)]
    /\ UNCHANGED <<idleVars, reply>>

Mean ==
    /\ reply = NoReply
    /\ \E name \in StatsNames :
         /\ objects' = [objects EXCEPT !.on = name]
         /\ reply' = Called("mean", mean(StatsOf(objects, name)))
    /\ UNCHANGED idleVars

Stddev ==
    /\ reply = NoReply
    /\ \E name \in StatsNames :
         /\ objects' = [objects EXCEPT !.on = name]
         /\ reply' = Called("stddev", stddev(StatsOf(objects, name)))
    /\ UNCHANGED idleVars

Quantile ==
    /\ reply = NoReply
    /\ \E name \in StatsNames, q \in Quantiles :
         /\ objects' = [objects EXCEPT !.on = name, !.q = q]
         /\ reply' = Called("quantile", quantile(StatsOf(objects, name), q))
    /\ UNCHANGED idleVars

NextStats == ObserveFirst \/ ObserveSecond \/ Mean \/ Stddev \/ Quantile

SpecStats == InitStats /\ [][NextStats]_vars

-----------------------------------------------------------------------------
(* BpData, as the test of the repository uses it: process_block and        *)
(* miss_block on a fresh BpData.                                           *)

\* the calls of one caller
MaxCalls == 3

\* the slot positions of the calls: the first two and the last of the twelve
CallSlots == {0, 1, SlotsPerProducer - 1}

\* the blocks handed to process_block: one without transactions, one with three kinds
\* of transaction, and one with two transactions of one signature, one of another, one
\* without actions and one in string form
CallBlocks ==
    { PlainChain(2)[n] : n \in 1 .. 2 }
        \cup { [PlainChain(2)[1] EXCEPT !.transactions =
                   <<DictTx(800, <<Action("testtesttest", "testmethod")>>),
                     DictTx(1000, <<Action("testtesttest", "testmethod")>>),
                     DictTx(100, <<Action("testertester", "method2")>>),
                     DictTx(50, <<>>),
                     StrTx(70)>>] }

\* instance, the counts of the calls made on it, old_data = copy.deepcopy(instance) once
\* it is taken, a BpData of its own that gets the calls made after the copy, and the
\* arguments of the last process_block
InitBpData ==
    /\ utcoffset = UTC
    /\ Idle
    /\ objects = [bp |-> NewBpData, produced |-> 0, missed |-> 0,
                  copied |-> FALSE, old |-> NewBpData, later |-> NewBpData,
                  block |-> NoneValue, slot |-> 0]

\* instance.process_block(block, slot)
ProcessBlock ==
    /\ reply = NoReply
    /\ objects.produced + objects.missed < MaxCalls
    /\ \E block \in CallBlocks, slot \in CallSlots :
         objects' = [objects EXCEPT !.bp = process_block(@, block, slot),
                                    !.later = IF objects.copied
                                              THEN process_block(@, block, slot) ELSE @,
                                    !.produced = @ + 1,
                                    !.block = block, !.slot = slot]
    /\ UNCHANGED <<idleVars, reply>>

\* instance.miss_block(slot)
MissBlock ==
    /\ reply = NoReply
    /\ objects.produced + objects.missed < MaxCalls
    /\ \E slot \in CallSlots :
         objects' = [objects EXCEPT !.bp = miss_block(@, slot),
                                    !.later = IF objects.copied THEN miss_block(@, slot) ELSE @,
                                    !.missed = @ + 1]
    /\ UNCHANGED <<idleVars, reply>>

\* old_data = copy.deepcopy(instance)
Copy ==
    /\ reply = NoReply
    /\ ~objects.copied
    /\ objects' = [objects EXCEPT !.copied = TRUE, !.old = objects.bp]
    /\ UNCHANGED <<idleVars, reply>>

\* diff = instance - old_data
Subtract ==
    /\ reply = NoReply
    /\ objects.copied
    /\ reply' = Called("__sub__", Returns(BpData_sub(objects.bp, objects.old)))
    /\ UNCHANGED <<idleVars, objects>>

NextBpData == ProcessBlock \/ MissBlock \/ Copy \/ Subtract

SpecBpData == InitBpData /\ [][NextBpData]_vars

-----------------------------------------------------------------------------
(* What the claims speak of *)

\* this step hands block number n = last_block_num + 1 to _handle_block
HandleStep == applied' # applied /\ applied' # <<>>

\* the block such a step handles, when the RPC answered with it
HandledBlock == chain[current_block.last_block_num + 1]

\* ... and _handle_block returned
AppliedStep == HandleStep /\ exc' = "none"

\* the schedule store (after the step) resolves version v
Resolves(v) == v = 0 \/ _format_schedule(v) \in DOMAIN schedule_db'

CursorSlot == _timestamp_to_slot(timestamp)

\* the missed slots a step imputes: those strictly between the cursor and the block
GapSlots(block) == (CursorSlot + 1) .. (_timestamp_to_slot(block.timestamp) - 1)

\* the rotation of section 3: producer S[(s mod (|S| * 12)) div 12] at position s mod 12
Owes(S, slot, name, position) ==
    /\ S[((slot % (Len(S) * 12)) \div 12) + 1] = name
    /\ slot % 12 = position

ProducerNames == {"eosio", "bpa", "bpb", "bpc"}

\* The uninterrupted run: the aggregator state after _init_block on empty stores and the
\* blocks StartingBlock + 1 .. n of the chain, applied in order by one process.
RECURSIVE Uninterrupted(_)
Uninterrupted(n) ==
    IF n <= StartingBlock
    THEN _init_block(FreshDb(EmptyMap, EmptyMap), chain[StartingBlock])
    ELSE LET before == Uninterrupted(n - 1)
         IN IF before.exc # "none" THEN before ELSE _handle_block(before, chain[n])

-----------------------------------------------------------------------------
(* Database.run and its worker pool (specification Spec) *)

\* C1: the blocks handed to _handle_block by one run are in strictly ascending
\* block_num, whatever the order in which the workers' get_block calls completed.
C1_AscendingOrder ==
    \A i \in 1 .. Len(applied) - 1 : applied[i] < applied[i + 1]

\* blocks 2 and 3 were fetched in one batch, 3 completed first, and 2 was handled first
C1_Witness == applied = <<2, 3>> /\ finished = <<3, 2>>

\* C4: a step in which an exception leaves the apply step of a batch takes the tailer
\* to its sleep of 60 s with `last` where it was; the loop does not end.
C4_Orig ==
    [][(pc = "fetch" /\ exc = "none" /\ exc' # "none")
         => /\ pc' = "sleep60"
            /\ current_block'.last_block_num = current_block.last_block_num]_vars

\* C5: `last` moves past a block only in the step that applied it, and after a step in
\* which a block of the batch failed the loop goes on from the unchanged aggregate, so
\* that the blocks not applied are fetched again.
C5_Orig ==
    /\ [][(pc # "start" /\ current_block'.last_block_num > current_block.last_block_num)
            => /\ AppliedStep
               /\ current_block'.last_block_num = current_block.last_block_num + 1
               /\ applied'[Len(applied')] = current_block'.last_block_num]_vars
    /\ [][(pc = "fetch" /\ exc' # "none")
            => /\ pc' \in {"loop", "sleep"}
               /\ current_block' = current_block]_vars

-----------------------------------------------------------------------------
(* The tailer under failures that pass (specification LiveSpec) *)

\* C3: every block the node has made irreversible is eventually applied.
C3_Orig ==
    \A n \in 1 .. MaxBlock :
        [](Len(chain) >= n => <>(exc = "none" /\ current_block.last_block_num >= n))

-----------------------------------------------------------------------------
(* The retry wrapper (specification SpecBackoff) *)

\* C6: a call that ends without any attempt having answered ends by raising; the
\* wrapper never returns normally without a result.
C6_Orig == rpc.status = "returned" => rpc.value # NoneValue

\* the delay schedule of section 4.4, and the course of a call that fails on every
\* attempt: each delay slept (a delay of 0 is no sleep), then the attempt
DelaySchedule == <<0, 5, 10, 15, 20, 30, 60, 120, 300, 900>>

RECURSIVE ScheduledCourse(_)
ScheduledCourse(i) ==
    IF i > Len(DelaySchedule) THEN <<>>
    ELSE (IF DelaySchedule[i] > 0 THEN <<DelaySchedule[i]>> ELSE <<>>)
         \o <<AttemptMark>> \o ScheduledCourse(i + 1)

IsPrefix(s, t) == Len(s) <= Len(t) /\ \A i \in 1 .. Len(s) : s[i] = t[i]

\* C7: the sleeps and attempts of a call follow the delay schedule, each attempt after
\* its delay; a call that ended has ended with an attempt (no sleep without a further
\* attempt, none after a success), and one failing throughout has made ten attempts.
C7_Orig ==
    /\ IsPrefix(rpc.events, ScheduledCourse(1))
    /\ rpc.status \in {"returned", "raised"} =>
          /\ rpc.events[Len(rpc.events)] = AttemptMark
          /\ (rpc.status = "returned" /\ rpc.value = NoneValue) => rpc.attempts = Len(DelaySchedule)

-----------------------------------------------------------------------------
(* The aggregator, block by block (specification SpecAgg) *)

\* C2: after a restart from the last snapshot and the re-ingestion of the blocks up to
\* block N, every producer's counters equal those of the uninterrupted run up to N.
C2_Orig ==
    (/\ pc = "loop" /\ exc = "none" /\ applied # <<>>
     /\ Uninterrupted(current_block.last_block_num).exc = "none")
    => current_block.producers = Uninterrupted(current_block.last_block_num).current_block.producers

SlotsIn(t0, t1) == ((t1 - t0) * 2) \div 1000

\* C8 as written: applying a block at t1 with the cursor at t0 raises the sum of
\* slots_passed over all producers by floor(2 * (t1 - t0)).
C8_Orig ==
    [][AppliedStep =>
         TotalSlotsPassed(current_block') - TotalSlotsPassed(current_block)
           = SlotsIn(timestamp, timestamp')]_vars

\* C8: applying a block at t1 with the cursor at t0 raises the sum of slots_passed over
\* all producers by floor(2 * (t1 - t0)), provided the schedule of last_schedule_num is
\* known whenever slots lie between the cursor and the block.
C8_SlotAccounting ==
    [][(AppliedStep /\ (GapSlots(HandledBlock) = {} \/ Resolves(current_block.last_schedule_num)))
         => TotalSlotsPassed(current_block') - TotalSlotsPassed(current_block)
              = SlotsIn(timestamp, timestamp')]_vars

\* a block was applied over a gap of two slots or more, and the missed slots are counted
C8_Witness ==
    /\ pc = "loop" /\ exc = "none" /\ Len(applied) = 1
    /\ TotalSlotsPassed(current_block) >= TotalBlocksProduced(current_block) + 2

Delta(field, name, i) ==
    ProducerData(current_block', name)[field][i] - ProducerData(current_block, name)[field][i]

\* C9: with the schedule of last_schedule_num known, applying a block records one
\* missed slot for each slot between the cursor and the block, for the producer and the
\* position that schedule gives the slot, counts the block itself as produced at its
\* position, and leaves the cursor at the block's timestamp.
C9_Orig ==
    [][(HandleStep /\ Resolves(current_block.last_schedule_num)) =>
         LET B == HandledBlock
             S == ScheduleOfVersion(current_block.last_schedule_num)
             position == _timestamp_to_slot(B.timestamp) % SlotsPerProducer
         IN /\ \A name \in ProducerNames : \A i \in Slots :
                 LET missed == Cardinality({s \in GapSlots(B) : Owes(S, s, name, i)})
                     own == IF name = B.producer /\ i = position THEN 1 ELSE 0
                 IN /\ Delta("slots_passed", name, i) = missed + own
                    /\ Delta("blocks_produced", name, i) = own
            /\ timestamp' = B.timestamp]_vars

\* C10: applying a block whose producer is not the one its schedule gives its slot
\* raises an assertion error and counts the block for no producer.
C10_Orig ==
    [][(/\ HandleStep
        /\ Resolves(HandledBlock.schedule_version)
        /\ ~Owes(ScheduleOfVersion(HandledBlock.schedule_version),
                 _timestamp_to_slot(HandledBlock.timestamp), HandledBlock.producer,
                 _timestamp_to_slot(HandledBlock.timestamp) % SlotsPerProducer))
         => /\ exc' = "AssertionError"
            /\ current_block'.last_block_num = current_block.last_block_num
            /\ TotalBlocksProduced(current_block') = TotalBlocksProduced(current_block)]_vars

\* C11: applying a block whose own schedule (schedule_version) is not in the schedule
\* store raises nothing: the block is counted for its producer, last_block_num and
\* last_schedule_num become the block's, and the cursor reaches the block's timestamp.
C11_Orig ==
    [][(HandleStep /\ ~Resolves(HandledBlock.schedule_version))
         => /\ exc' = "none"
            /\ current_block'.last_block_num = HandledBlock.block_num
            /\ current_block'.last_schedule_num = HandledBlock.schedule_version
            /\ TotalBlocksProduced(current_block') = TotalBlocksProduced(current_block) + 1
            /\ timestamp' = HandledBlock.timestamp]_vars

\* C12: a snapshot stored under key T holds no block later than T: the last block it
\* has incorporated carries a timestamp at or before its key.
C12_Orig ==
    \A k \in DOMAIN block_db :
        chain[block_db[k].last_block_num].timestamp <= parse_datetime(k)

SlotTimestamp(slot) == slot * SlotMillis + EpochOrigin

\* C13: once the next block has been applied, the slot the cursor stood at, if a multiple
\* of 2520, has its snapshot in the store, and so has every slot imputed on the way that
\* is a multiple of 2520; the keys written are those of multiples of 2520 only.
C13_Orig ==
    [][AppliedStep =>
         /\ SaveDue(timestamp) => isoformat(timestamp) \in DOMAIN block_db'
         /\ \A s \in GapSlots(HandledBlock) :
               (Resolves(current_block.last_schedule_num) /\ s % SaveEvery = 0)
                  => isoformat(SlotTimestamp(s)) \in DOMAIN block_db'
         /\ \A k \in (DOMAIN block_db') \ (DOMAIN block_db) : SaveDue(parse_datetime(k))]_vars

\* C14: a snapshot key that is in the store is never given another value: a run writes
\* no key twice, and a replay after a restart writes what is stored already.
C14_Orig ==
    [][\A k \in (DOMAIN block_db) \cap (DOMAIN block_db') : block_db'[k] = block_db[k]]_vars

NonNegativeStats(stats) ==
    /\ stats.count >= 0
    /\ \A i \in DOMAIN stats.measurements : stats.measurements[i] >= 0

NonNegativeBpData(bp) ==
    /\ \A i \in Slots : bp.slots_passed[i] >= 0 /\ bp.blocks_produced[i] >= 0
    /\ \A sig \in DOMAIN bp.tx_data : NonNegativeStats(bp.tx_data[sig])

\* the difference s2 - s1: as BlockSummary.__sub__ returns it, and producer by producer
NonNegativeDifference(s2, s1) ==
    /\ \A name \in DOMAIN BlockSummary_sub(s2, s1).producers :
          NonNegativeBpData(BlockSummary_sub(s2, s1).producers[name])
    /\ \A name \in (DOMAIN s1.producers) \cup (DOMAIN s2.producers) :
          NonNegativeBpData(BpData_sub(ProducerData(s2, name), ProducerData(s1, name)))

DeltaWithinSlots(s2, s1) ==
    \A name \in DOMAIN BlockSummary_sub(s2, s1).producers : \A i \in Slots :
        BlockSummary_sub(s2, s1).producers[name].blocks_produced[i]
          <= BlockSummary_sub(s2, s1).producers[name].slots_passed[i]

\* C16: blocks_produced[i] <= slots_passed[i] for every producer and position of the
\* cumulative aggregate, and of every delta of the aggregate or a later snapshot to an
\* earlier snapshot.
C16_ProducedWithinPassed ==
    /\ \A name \in DOMAIN current_block.producers : \A i \in Slots :
          current_block.producers[name].blocks_produced[i]
            <= current_block.producers[name].slots_passed[i]
    /\ \A k1, k2 \in DOMAIN block_db : KeyLess(k1, k2) => DeltaWithinSlots(block_db[k2], block_db[k1])
    /\ \A k1 \in DOMAIN block_db :
          (pc = "loop" /\ exc = "none") => DeltaWithinSlots(current_block, block_db[k1])

\* blocks were missed, blocks were produced, and a snapshot taken on the way is in the store
C16_Witness ==
    /\ pc = "loop" /\ exc = "none" /\ Len(applied) = 2
    /\ TotalSlotsPassed(current_block) > TotalBlocksProduced(current_block)
    /\ \E k1 \in DOMAIN block_db :
          /\ TotalBlocksProduced(block_db[k1]) > 0
          /\ TotalBlocksProduced(current_block) > TotalBlocksProduced(block_db[k1])

-----------------------------------------------------------------------------
(* The queries (specification SpecQuery) *)

\* the snapshots keyed at or after time t, all of them when t is absent
SnapshotsFrom(t) ==
    IF t = NoTime THEN DOMAIN block_db ELSE { k \in DOMAIN block_db : parse_datetime(k) >= t }

Earliest(keys) == CHOOSE k \in keys : \A j \in keys : parse_datetime(k) <= parse_datetime(j)

Latest(keys) == CHOOSE k \in keys : \A j \in keys : parse_datetime(k) >= parse_datetime(j)

\* C17: fetch_single(start, end) returns B - A, A the snapshot of the least key at or
\* after start (the first when start is absent), B that of the least key at or after end
\* (the last when end is absent); it fails when the store is empty or no key is at or
\* after a bound given.
C17_FetchSingle ==
    reply.op = "fetch_single" =>
       IF SnapshotsFrom(reply.start) = {} \/ SnapshotsFrom(reply.end) = {}
       THEN reply.status = "raised"
       ELSE LET A == block_db[Earliest(SnapshotsFrom(reply.start))]
                B == IF reply.end = NoTime THEN block_db[Latest(DOMAIN block_db)]
                     ELSE block_db[Earliest(SnapshotsFrom(reply.end))]
            IN reply.status = "returned" /\ reply.value = BlockSummary_sub(B, A)

\* a query with both bounds given, between two snapshots, has returned their difference
C17_Witness ==
    /\ reply.op = "fetch_single" /\ reply.status = "returned"
    /\ reply.start # NoTime /\ reply.end # NoTime
    /\ Earliest(SnapshotsFrom(reply.start)) # Earliest(SnapshotsFrom(reply.end))
    /\ TotalSlotsPassed(reply.value) > 0

\* the keys of a set in ascending order
RECURSIVE KeySeq(_)
KeySeq(keys) ==
    IF keys = {} THEN <<>> ELSE <<Earliest(keys)>> \o KeySeq(keys \ {Earliest(keys)})

\* the store holds snapshots, each one step after the one before
EvenlySpaced(step) ==
    /\ DOMAIN block_db # {}
    /\ \A i \in 1 .. Len(KeySeq(DOMAIN block_db)) - 1 :
          parse_datetime(KeySeq(DOMAIN block_db)[i + 1])
            = parse_datetime(KeySeq(DOMAIN block_db)[i]) + step

\* the sum of the deltas i .. Len(deltas) for one producer
RECURSIVE SumDeltas(_, _, _)
SumDeltas(deltas, name, i) ==
    IF i > Len(deltas) THEN NewBpData
    ELSE BpData_add(ProducerData(deltas[i].value, name), SumDeltas(deltas, name, i + 1))

\* equal component by component, a signature that is absent counting as zeros
SameBpData(a, b) ==
    /\ a.slots_passed = b.slots_passed
    /\ a.blocks_produced = b.blocks_produced
    /\ \A sig \in (DOMAIN a.tx_data) \cup (DOMAIN b.tx_data) :
          (IF sig \in DOMAIN a.tx_data THEN a.tx_data[sig] ELSE NewStats)
            = (IF sig \in DOMAIN b.tx_data THEN b.tx_data[sig] ELSE NewStats)

\* C18: over a store of N snapshots one step apart, fetch_by_time_range without bounds
\* returns N - 1 deltas, the i-th keyed by the (i+1)-th snapshot's timestamp and equal to
\* that snapshot minus the one before, non-negative; their sum is fetch_single from the
\* first key to the last.
C18_RangeDeltas ==
    (/\ reply.op = "fetch_by_time_range"
     /\ reply.start = NoTime /\ reply.end = NoTime
     /\ EvenlySpaced(reply.step))
    => LET ks == KeySeq(DOMAIN block_db)
           whole == fetch_single(block_db, parse_datetime(ks[1]), parse_datetime(ks[Len(ks)]))
       IN /\ reply.status = "returned"
          /\ Len(reply.value) = Len(ks) - 1
          /\ \A i \in 1 .. Len(reply.value) :
                /\ reply.value[i].key = parse_datetime(ks[i + 1])
                /\ reply.value[i].value = BlockSummary_sub(block_db[ks[i + 1]], block_db[ks[i]])
                /\ \A name \in DOMAIN reply.value[i].value.producers :
                      NonNegativeBpData(reply.value[i].value.producers[name])
          /\ whole.status = "returned"
          /\ \A name \in ProducerNames :
                SameBpData(SumDeltas(reply.value, name, 1), ProducerData(whole.value, name))

\* three snapshots 21 minutes apart, queried with the default step: two deltas, none empty
C18_Witness ==
    /\ reply.op = "fetch_by_time_range" /\ reply.start = NoTime /\ reply.end = NoTime
    /\ reply.step = SaveEvery * SlotMillis
    /\ EvenlySpaced(reply.step)
    /\ Len(reply.value) = 2
    /\ \A i \in 1 .. 2 : TotalSlotsPassed(reply.value[i].value) > 0

\* C19: a query of either kind ends with an error when the store is empty or a bound it
\* was given lies after every stored snapshot.
C19_Orig ==
    (/\ reply.op \in {"fetch_single", "fetch_by_time_range"}
     /\ \/ DOMAIN block_db = {}
        \/ reply.start # NoTime /\ SnapshotsFrom(reply.start) = {}
        \/ reply.end # NoTime /\ SnapshotsFrom(reply.end) = {})
    => reply.status = "raised"

-----------------------------------------------------------------------------
(* Stopping the tailer (specification StopSpec) *)

\* C20: once stop() has been called, Database.run ends, whenever the call came.
C20_Orig == [](_stopped => <>(pc \in {"returned", "raised"}))

-----------------------------------------------------------------------------
(* The worker pool and the batches of the tailer (specifications StopSpec, Spec) *)

\* C21: after stop() has been called on the running tailer, no block is applied to the
\* aggregate and no snapshot is written: the results still in flight are discarded.
C21_Orig ==
    [][(_stopped /\ pc # "start") =>
          (current_block' = current_block /\ block_db' = block_db)]_vars

\* the get_block RPCs in flight: the tasks a worker of the pool is running
InFlight == { n \in DOMAIN tasks : tasks[n].state = "running" }

\* a step of a fetch worker: a task starts running, or its RPC ends
WorkerStep ==
    \E n \in DOMAIN tasks \cap DOMAIN tasks' :
       /\ tasks'[n].state # tasks[n].state
       /\ tasks'[n].state \in {"running", "done"}

\* C22: at most 8 get_block RPCs are in flight at any moment, and no step of a fetch
\* worker changes the in-memory BlockSummary: only the driver of the tailer does.
C22_BoundedPool ==
    /\ [](Cardinality(InFlight) <= PoolSize)
    /\ [][WorkerStep => current_block' = current_block]_vars

\* the pool is saturated: 8 RPCs in flight, a further task waits, the summary has advanced
C22_Witness ==
    /\ Cardinality(InFlight) = PoolSize
    /\ \E n \in DOMAIN tasks : tasks[n].state = "queued"

\* the block numbers one iteration begun at `last` with the node at `frontier` is to take on
BatchOf(last, frontier) == { n \in (last + 1) .. frontier : n <= last + BatchLimit }

\* the sequence last+1, last+2, ..., last+n
Consecutive(last, n) == [i \in 1 .. n |-> last + i]

\* C23: an iteration of the tailer fetches the blocks last+1 .. min(frontier, last+1000),
\* at most 1000 of them, and when it ends it has applied exactly those, in order; with
\* frontier = last it fetches nothing and sleeps.
C23_BatchRange ==
    [][/\ (pc = "loop" /\ pc' = "fetch") =>
            /\ tasks' = [n \in BatchOf(current_block.last_block_num, Len(chain)) |-> QueuedTask]
            /\ Cardinality(DOMAIN tasks') <= BatchLimit
            /\ current_block' = current_block
       /\ (pc = "fetch" /\ pc' = "loop") =>
            /\ DOMAIN tasks = (current_block.last_block_num + 1) ..
                                 (current_block.last_block_num + Cardinality(DOMAIN tasks))
            /\ applied' = applied \o Consecutive(current_block.last_block_num,
                                                  Cardinality(DOMAIN tasks))
            /\ current_block'.last_block_num = current_block.last_block_num + Cardinality(DOMAIN tasks)
       /\ (pc = "loop" /\ Len(chain) = current_block.last_block_num) =>
            /\ pc' # "fetch"
            /\ tasks' = EmptyMap
            /\ applied' = applied
            /\ current_block' = current_block
       /\ (pc = "loop" /\ pc' = "sleep") => Len(chain) = current_block.last_block_num
      ]_vars

\* a full batch of 1000 blocks has been applied and the node is still ahead
C23_Witness ==
    /\ pc = "loop"
    /\ Len(applied) = BatchLimit
    /\ current_block.last_block_num = StartingBlock + BatchLimit
    /\ Len(chain) > current_block.last_block_num

-----------------------------------------------------------------------------
(* The schedule store (specification SpecSched) *)

\* the producer names of a new_producers, in its order
NamesOf(np) == [i \in 1 .. Len(np.producers) |-> np.producers[i].producer_name]

\* C24: a block's new_producers of version v is in the store under v before the lookups
\* of that block's handling (a block under the version it announces is handled without
\* the lookup failing), every later lookup of v returns the list in its order, no entry
\* of the store is lost or changed, and version 0 is ["eosio"] whatever the store holds.
C24_ReadAfterWrite ==
    /\ [][(pc = "loop" /\ Len(applied') = Len(applied) + 1) =>
             LET block == chain[current_block.last_block_num + 1]
                 np == block.new_producers
                 after == DbState(current_block', timestamp', block_db', schedule_db', exc')
             IN ~np.is_none =>
                  /\ _format_schedule(np.version) \in DOMAIN schedule_db'
                  /\ schedule_db'[_format_schedule(np.version)] = NamesOf(np)
                  /\ np.version # 0 => _schedule(after, np.version) = NamesOf(np)
                  /\ (np.version # 0 /\ block.schedule_version = np.version) => exc' = "none"
      ]_vars
    /\ [][\A k \in DOMAIN schedule_db :
             k \in DOMAIN schedule_db' /\ schedule_db'[k] = schedule_db[k]]_vars
    /\ [](_schedule(Db, 0) = <<"eosio">>)

\* the store holds a list under version 0 and the schedule of version 1, which the block
\* that announced it was produced under; the process has been restarted since
C24_Witness ==
    /\ pc = "loop"
    /\ applied = <<>>
    /\ _format_schedule(0) \in DOMAIN schedule_db
    /\ schedule_db[_format_schedule(0)] # <<"eosio">>
    /\ _format_schedule(1) \in DOMAIN schedule_db
    /\ \E n \in 1 .. current_block.last_block_num :
          /\ ~chain[n].new_producers.is_none
          /\ chain[n].new_producers.version = 1
          /\ chain[n].schedule_version = 1

-----------------------------------------------------------------------------
(* Library functions (specifications SpecRotation, SpecStats, SpecBpData) *)

\* C25: under a schedule S of 21 producers the lookup at 2000-01-01T00:00:00Z + k * 0.5 s
\* returns the producer S[(k mod 252) div 12] and the slot position k mod 12.
C25_Orig ==
    reply.op = "_block_producer_for_timestamp" =>
       reply.value = <<objects.schedule[((objects.k % 252) \div 12) + 1], objects.k % 12>>

\* the Stats that has observed the values of seq, from a fresh one
RECURSIVE StatsOfSeq(_)
StatsOfSeq(seq) ==
    IF seq = <<>> THEN NewStats
    ELSE observe(StatsOfSeq(SubSeq(seq, 1, Len(seq) - 1)), seq[Len(seq)])

Below(seq, bound) == Cardinality({ k \in 1 .. Len(seq) : seq[k] < bound })

\* the histogram of stats is the cumulative histogram of the observations seq
CumulativeOf(stats, seq) ==
    /\ stats.count = Len(seq)
    /\ \A i \in DOMAIN stats.measurements :
          /\ stats.measurements[i] = Below(seq, _timing_buckets[i])
          /\ \A j \in DOMAIN stats.measurements : i <= j =>
                stats.measurements[i] <= stats.measurements[j]
    /\ stats.measurements[Len(_timing_buckets)] <= stats.count

\* stats observed x: the entries of the boundaries above x grew by one, the others stayed
ObservedExactly(before, after, x) ==
    \A i \in DOMAIN before.measurements :
       after.measurements[i] =
          before.measurements[i] + (IF _timing_buckets[i] > x THEN 1 ELSE 0)

\* C27: after any observe and add operations measurements is non-decreasing in the bucket
\* index, measurements[i] is the number of observations below buckets[i], the last entry
\* is at most count, and observe(x) increments exactly the entries with boundary > x.
C27_Cumulative ==
    /\ [](objects # NoObjects =>
            /\ CumulativeOf(objects.instance, objects.A)
            /\ CumulativeOf(objects.instance2, objects.A \o objects.B)
            /\ CumulativeOf(objects.later, objects.B)
            /\ CumulativeOf(Stats_add(objects.instance, objects.later), objects.A \o objects.B)
            /\ CumulativeOf(Stats_add(objects.instance2, objects.instance2),
                            objects.A \o objects.B \o objects.A \o objects.B))
    /\ [][(objects # NoObjects /\ Len(objects'.A) = Len(objects.A) + 1) =>
             ObservedExactly(objects.instance, objects'.instance, objects'.A[Len(objects'.A)])]_vars
    /\ [][(objects # NoObjects /\ Len(objects'.B) = Len(objects.B) + 1) =>
             /\ ObservedExactly(objects.later, objects'.later, objects'.B[Len(objects'.B)])
             /\ ObservedExactly(objects.instance2, objects'.instance2,
                                objects'.B[Len(objects'.B)])]_vars

\* observations below the first boundary, between boundaries and on the last one
C27_Witness ==
    /\ objects # NoObjects
    /\ objects.A # <<>> /\ objects.B # <<>>
    /\ 0 < objects.instance2.measurements[1]
    /\ objects.instance2.measurements[1] < objects.instance2.measurements[2]
    /\ objects.instance2.measurements[Len(_timing_buckets)] < objects.instance2.count

\* the observations the Stats of that name has made
ObservationsOf(o, name) ==
    CASE name = "instance" -> o.A
      [] name = "instance2" -> o.A \o o.B
      [] name = "later" -> o.B

\* every value lies between the first and the last bucket boundary
InBucketRange(seq) ==
    \A k \in 1 .. Len(seq) :
       _timing_buckets[1] <= seq[k] /\ seq[k] <= _timing_buckets[Len(_timing_buckets)]

C29_Orig ==
    (/\ reply.op \in {"mean", "stddev"}
     /\ StatsOf(objects, objects.on).count = 0)
    => reply.status = "returned" /\ reply.value = NaN

\* C30: after any process_block and miss_block calls on a fresh BpData,
\* blocks_produced_total is the number of process_block calls, slots_passed_total that
\* number plus the number of miss_block calls, and miss_block changes neither
\* blocks_produced nor tx_data.
C30_CallCounts ==
    /\ [](objects # NoObjects =>
            /\ blocks_produced_total(objects.bp) = objects.produced
            /\ slots_passed_total(objects.bp) = objects.produced + objects.missed)
    /\ [][(objects # NoObjects /\ objects'.missed # objects.missed) =>
             /\ objects'.bp.blocks_produced = objects.bp.blocks_produced
             /\ objects'.bp.tx_data = objects.bp.tx_data]_vars

\* a block with transactions has been processed and a slot missed, as in the test
C30_Witness ==
    /\ objects # NoObjects
    /\ objects.produced = 1 /\ objects.missed = 1
    /\ DOMAIN objects.bp.tx_data # {}
    /\ slots_passed_total(objects.bp) = 2

-----------------------------------------------------------------------------
(* BpData and BlockSummary differences (specifications SpecBpData, SpecDelta) *)

\* C31: b - a, b being a copy of a with further process_block / miss_block calls, has the
\* slots_passed and blocks_produced per slot index and the statistics of every action
\* signature of a BpData that got the further calls only (a signature of a not seen
\* again has count 0; one first seen after a has its full statistics).
C31_BpDataDelta ==
    reply.op = "__sub__" =>
       /\ reply.status = "returned"
       /\ SameBpData(reply.value, objects.later)
       /\ DOMAIN objects.later.tx_data \subseteq DOMAIN reply.value.tx_data

\* the copy had seen a signature; after it a slot was missed and a block processed that
\* brought a signature the copy had not
C31_Witness ==
    /\ reply.op = "__sub__"
    /\ DOMAIN objects.old.tx_data # {}
    /\ DOMAIN objects.later.tx_data \ DOMAIN objects.old.tx_data # {}
    /\ slots_passed_total(objects.later) > blocks_produced_total(objects.later)
    /\ blocks_produced_total(objects.later) > 0

\* the transactions of txs process_block observes under sig: structured, one action
SingleActionTxs(txs, sig) ==
    { i \in 1 .. Len(txs) :
         /\ txs[i].trx.is_dict
         /\ Len(txs[i].trx.actions) = 1
         /\ txs[i].trx.actions[1].account \o ":" \o txs[i].trx.actions[1].name = sig }

\* every signature an action of txs carries
SignaturesIn(txs) ==
    UNION { { txs[i].trx.actions[k].account \o ":" \o txs[i].trx.actions[k].name :
                 k \in 1 .. Len(txs[i].trx.actions) } : i \in 1 .. Len(txs) }

StatsAt(bp, sig) == IF sig \in DOMAIN bp.tx_data THEN bp.tx_data[sig] ELSE NewStats

\* C32: process_block observes cpu_usage_us under "<account>:<name>" for exactly the
\* structured transactions with one action; string-form transactions and those with no
\* or several actions change no Stats and make no entry, so the total count grows by
\* the number of single-action structured transactions of the block.
C32_SingleActionOnly ==
    [][(objects # NoObjects /\ objects'.produced # objects.produced) =>
          LET txs == objects'.block.transactions
              sigs == DOMAIN objects.bp.tx_data \cup DOMAIN objects'.bp.tx_data
                         \cup SignaturesIn(txs)
          IN /\ \A sig \in sigs :
                   /\ StatsAt(objects'.bp, sig).count =
                         StatsAt(objects.bp, sig).count + Cardinality(SingleActionTxs(txs, sig))
                   /\ StatsAt(objects'.bp, sig).sum =
                         StatsAt(objects.bp, sig).sum
                            + SumOver([i \in SingleActionTxs(txs, sig) |-> txs[i].cpu_usage_us],
                                      SingleActionTxs(txs, sig))
                   /\ SingleActionTxs(txs, sig) = {} =>
                         /\ StatsAt(objects'.bp, sig) = StatsAt(objects.bp, sig)
                         /\ sig \in DOMAIN objects'.bp.tx_data => sig \in DOMAIN objects.bp.tx_data
             /\ SumOver([sig \in sigs |-> StatsAt(objects'.bp, sig).count], sigs) =
                   SumOver([sig \in sigs |-> StatsAt(objects.bp, sig).count], sigs)
                      + Cardinality({ i \in 1 .. Len(txs) :
                                         txs[i].trx.is_dict /\ Len(txs[i].trx.actions) = 1 })
      ]_vars

\* a block with single-action, action-less and string-form transactions was processed
C32_Witness ==
    /\ objects # NoObjects
    /\ objects.block # NoneValue
    /\ Len(objects.block.transactions) = 5
    /\ objects.bp.tx_data["testtesttest:testmethod"].count >= 2

-----------------------------------------------------------------------------
(* Start-up and the block number of the running aggregate *)

\* the seed snapshot _init_block writes into an empty store
SeedSnapshot ==
    [NewBlockSummary EXCEPT !.last_block_num = StartingBlock,
                            !.last_schedule_num = chain[StartingBlock].schedule_version]

SeedKey == isoformat(chain[StartingBlock].timestamp)

\* C33: _init_block on a non-empty store takes the last snapshot as the current
\* aggregate and its key as the cursor, writes nothing and does not depend on the
\* starting block; on an empty store it writes one seed snapshot, without producers and
\* with last_block_num = startingBlock, under the starting block's timestamp; the first
\* block handled after a start from the seed is startingBlock + 1.
C33_StartUp ==
    /\ [][(pc = "start" /\ pc' = "loop") =>
             IF DOMAIN block_db # {}
             THEN /\ current_block' = block_db[LastKey(block_db)]
                  /\ timestamp' = parse_datetime(LastKey(block_db))
                  /\ block_db' = block_db
                  /\ schedule_db' = schedule_db
                  /\ \A block_data \in {NoneValue} \cup { chain[n] : n \in 1 .. Len(chain) } :
                        _init_block(Db, block_data) = _init_block(Db, chain[StartingBlock])
             ELSE /\ block_db' = MapPut(EmptyMap, SeedKey, SeedSnapshot)
                  /\ SeedSnapshot.producers = EmptyMap
                  /\ SeedSnapshot.last_block_num = StartingBlock
                  /\ current_block' = SeedSnapshot
                  /\ timestamp' = chain[StartingBlock].timestamp
                  /\ schedule_db' = schedule_db
      ]_vars
    /\ [][(applied = <<>> /\ Len(applied') = 1) =>
             /\ applied'[1] = current_block.last_block_num + 1
             /\ current_block = SeedSnapshot => applied'[1] = StartingBlock + 1
      ]_vars

\* a run started from a store that held a snapshot of an aggregate beyond the starting
\* block, and handled its first block
C33_Witness ==
    /\ Len(applied) = 1
    /\ applied[1] > StartingBlock + 1
    /\ \E k \in DOMAIN block_db : block_db[k].last_block_num = applied[1] - 1

\* lines 220-230, get_info reporting a number below last_block_num (a node that is behind
\* the one asked before): block_num != last, min() leaves it, the range is empty and the
\* for loop has nothing to handle
LoopBodyBehind ==
    /\ pc = "loop"
    /\ ~_stopped
    /\ \E num \in 0 .. current_block.last_block_num - 1 :
         LET last == current_block.last_block_num
             block_num == Min(num, last + BatchLimit)
         IN /\ num # last
            /\ tasks' = [n \in (last + 1) .. block_num |-> QueuedTask]
            /\ finished' = <<>>
            /\ pc' = IF last + 1 <= block_num THEN "fetch" ELSE "loop"
            /\ reply' = Called("get_info", Returns(<<num>>))
    /\ UNCHANGED <<chain, dbVars, _stopped, rpc, hostVars, applied>>

\* one run of Database.run that nobody stops or kills
NextFrontier ==
    \/ NodeProducePlain
    \/ RunBegin \/ LoopBody \/ LoopBodyBehind \/ Wake
    \/ WorkerStart \/ WorkerFinish \/ Consume

SpecFrontier == Init /\ [][NextFrontier]_vars

\* C34: within one run last_block_num grows by exactly 1 with every block applied and
\* changes in no other step, so no block number is applied twice and none at or below
\* the start point; a get_info answer below last_block_num applies no block.
C34_OneByOne ==
    /\ [][(pc # "start" /\ pc' # "start") =>
             /\ (Len(applied') = Len(applied) + 1 /\ exc' = "none") =>
                   /\ current_block'.last_block_num = current_block.last_block_num + 1
                   /\ applied'[Len(applied')] = current_block'.last_block_num
             /\ (Len(applied') = Len(applied) \/ exc' # "none") =>
                   current_block'.last_block_num = current_block.last_block_num
             /\ (reply'.op = "get_info" /\ reply' # reply) =>
                   /\ applied' = applied
                   /\ current_block' = current_block
                   /\ pc' = "loop"
                   /\ tasks' = EmptyMap
      ]_vars
    /\ [](\A i, j \in 1 .. Len(applied) : applied[i] = applied[j] => i = j)
    /\ [](pc \notin {"start", "raised"} =>
             \A i \in 1 .. Len(applied) : applied[i] <= current_block.last_block_num)

\* two blocks were applied, then get_info reported a number below last_block_num and
\* the loop went on without applying anything
C34_Witness ==
    /\ reply.op = "get_info"
    /\ reply.value[1] < current_block.last_block_num
    /\ pc = "loop"
    /\ Len(applied) = 2
    /\ current_block.last_block_num = applied[2]


\* C35: a step in which _handle_block raises leaves the aggregate, the cursor and the
\* two stores as they were before the block.
C35_Orig ==
    [][(pc = "loop" /\ Len(applied') = Len(applied) + 1 /\ exc' # "none") =>
          /\ current_block' = current_block
          /\ timestamp' = timestamp
          /\ block_db' = block_db
          /\ schedule_db' = schedule_db
      ]_vars

-----------------------------------------------------------------------------
(* BlockSummary.__sub__ on objects.  A BlockSummary maps producer names to *)
(* BpData objects; the heap gives the value of every object by its number, *)
(* so that two maps can hold the same object.                              *)

MaxDeltaOps == 4

DeltaNames == {"bpa", "bpb"}

\* a BlockSummary whose producers are references into the heap
NewSummaryRefs == [producers |-> EmptyMap, last_block_num |-> StartingBlock,
                   last_schedule_num |-> 1]

\* the BlockSummary a reference summary stands for, the objects replaced by their values
Deref(heap, summary) ==
    [producers |-> [name \in DOMAIN summary.producers |-> heap[summary.producers[name]]],
     last_block_num |-> summary.last_block_num,
     last_schedule_num |-> summary.last_schedule_num]

\* summary.producers[name] on the defaultdict(BpData): the object, made if absent
ProducerObject(heap, summary, name) ==
    IF name \in DOMAIN summary.producers
    THEN [heap |-> heap, summary |-> summary]
    ELSE [heap |-> Append(heap, NewBpData),
          summary |-> [summary EXCEPT !.producers = MapPut(@, name, Len(heap) + 1)]]

\* copy.deepcopy / pickle of a summary: every BpData becomes a new object
RECURSIVE DeepCopy(_, _, _, _)
DeepCopy(heap, summary, copy, names) ==
    IF names = {} THEN [heap |-> heap, summary |-> copy]
    ELSE LET name == CHOOSE n \in names : TRUE
         IN DeepCopy(Append(heap, heap[summary.producers[name]]), summary,
                     [copy EXCEPT !.producers = MapPut(@, name, Len(heap) + 1)],
                     names \ {name})

\* the for loop of BlockSummary.__sub__ over the producers of self still to visit;
\* BpData.__sub__ returns a new object, the else branch takes self's own object, and
\* minify() changes the object it is called on and returns it
RECURSIVE SubLoop(_, _, _, _, _)
SubLoop(heap, self, other, result, names) ==
    IF names = {} THEN [heap |-> heap, summary |-> result]
    ELSE LET producer_name == CHOOSE n \in names : TRUE
             shared == producer_name \notin DOMAIN other.producers
             with == IF shared THEN heap
                     ELSE Append(heap, BpData_sub(heap[self.producers[producer_name]],
                                                  heap[other.producers[producer_name]]))
             bp_data == IF shared THEN self.producers[producer_name] ELSE Len(with)
         IN IF slots_passed_total(with[bp_data]) > 0
            THEN SubLoop([with EXCEPT ![bp_data] = minify(@)], self, other,
                         [result EXCEPT !.producers = MapPut(@, producer_name, bp_data)],
                         names \ {producer_name})
            ELSE SubLoop(with, self, other, result, names \ {producer_name})

\* BlockSummary.__sub__ on the heap
BlockSummary_sub_objects(heap, self, other) ==
    SubLoop(heap, self, other,
            [producers |-> EmptyMap, last_block_num |-> self.last_block_num,
             last_schedule_num |-> self.last_schedule_num],
            DOMAIN self.producers)

\* the running aggregate cur, a snapshot old unpickled from the store once taken, the
\* difference once computed and the operands as they were just before it
InitDelta ==
    /\ utcoffset = UTC
    /\ Idle
    /\ reply = NoReply
    /\ objects = [heap |-> <<>>, cur |-> NewSummaryRefs, old |-> NewSummaryRefs,
                  ops |-> 0, taken |-> FALSE, minuend |-> "none", mutated |-> FALSE,
                  result |-> NewSummaryRefs,
                  before |-> [cur |-> Deref(<<>>, NewSummaryRefs),
                              old |-> Deref(<<>>, NewSummaryRefs)]]

\* cur.producers[name].process_block(block, 0), the block number moving on
DeltaProcess ==
    /\ objects.minuend = "none"
    /\ objects.ops < MaxDeltaOps
    /\ \E name \in DeltaNames, block \in CallBlocks :
         LET at == ProducerObject(objects.heap, objects.cur, name)
         IN objects' = [objects EXCEPT
                           !.heap = [at.heap EXCEPT ![at.summary.producers[name]] =
                                                       process_block(@, block, 0)],
                           !.cur = [at.summary EXCEPT !.last_block_num = @ + 1],
                           !.ops = @ + 1]
    /\ UNCHANGED <<idleVars, reply>>

\* cur.producers[name].miss_block(1)
DeltaMiss ==
    /\ objects.minuend = "none"
    /\ objects.ops < MaxDeltaOps
    /\ \E name \in DeltaNames :
         LET at == ProducerObject(objects.heap, objects.cur, name)
         IN objects' = [objects EXCEPT
                           !.heap = [at.heap EXCEPT ![at.summary.producers[name]] =
                                                       miss_block(@, 1)],
                           !.cur = at.summary,
                           !.ops = @ + 1]
    /\ UNCHANGED <<idleVars, reply>>

\* the aggregate is pickled into the store and read back as old
TakeSnapshot ==
    /\ objects.minuend = "none"
    /\ ~objects.taken
    /\ LET made == DeepCopy(objects.heap, objects.cur,
                            [objects.cur EXCEPT !.producers = EmptyMap],
                            DOMAIN objects.cur.producers)
       IN objects' = [objects EXCEPT !.heap = made.heap, !.old = made.summary,
                                     !.taken = TRUE]
    /\ UNCHANGED <<idleVars, reply>>

\* result = cur - old, or result = old - cur
SubtractSummaries ==
    /\ objects.minuend = "none"
    /\ objects.taken
    /\ \E minuend \in {"cur", "old"} :
         LET self == IF minuend = "cur" THEN objects.cur ELSE objects.old
             other == IF minuend = "cur" THEN objects.old ELSE objects.cur
             made == BlockSummary_sub_objects(objects.heap, self, other)
         IN objects' = [objects EXCEPT
                           !.before = [cur |-> Deref(objects.heap, objects.cur),
                                       old |-> Deref(objects.heap, objects.old)],
                           !.heap = made.heap, !.result = made.summary,
                           !.minuend = minuend]
    /\ UNCHANGED <<idleVars, reply>>

\* the caller changes the result: result.producers[name].miss_block(0)
MutateResult ==
    /\ objects.minuend # "none"
    /\ ~objects.mutated
    /\ \E name \in DOMAIN objects.result.producers :
         objects' = [objects EXCEPT !.heap[objects.result.producers[name]] = miss_block(@, 0),
                                    !.mutated = TRUE]
    /\ UNCHANGED <<idleVars, reply>>

NextDelta == DeltaProcess \/ DeltaMiss \/ TakeSnapshot \/ SubtractSummaries \/ MutateResult

SpecDelta == InitDelta /\ [][NextDelta]_vars

\* the operands of the difference computed, as they were
Minuend == IF objects.minuend = "cur" THEN objects.before.cur ELSE objects.before.old

Subtrahend == IF objects.minuend = "cur" THEN objects.before.old ELSE objects.before.cur

\* C36: a difference of two BlockSummaries holds only producers with
\* slots_passed_total > 0 and only signatures with a count other than 0, and has the
\* last_block_num and last_schedule_num of the minuend.
C36_MinimalDelta ==
    (objects.minuend # "none" /\ ~objects.mutated) =>
       LET delta == Deref(objects.heap, objects.result)
       IN /\ delta = BlockSummary_sub(Minuend, Subtrahend)
          /\ \A name \in DOMAIN delta.producers :
                /\ slots_passed_total(delta.producers[name]) > 0
                /\ \A sig \in DOMAIN delta.producers[name].tx_data :
                      delta.producers[name].tx_data[sig].count # 0
          /\ delta.last_block_num = Minuend.last_block_num
          /\ delta.last_schedule_num = Minuend.last_schedule_num

\* a difference that left out a producer without slots in the interval and a signature
\* without observations in it, between snapshots of different block numbers
C36_Witness ==
    /\ objects.minuend = "cur" /\ ~objects.mutated
    /\ DOMAIN Minuend.producers \ DOMAIN objects.result.producers # {}
    /\ \E name \in DOMAIN objects.result.producers :
          /\ name \in DOMAIN Subtrahend.producers
          /\ DOMAIN Minuend.producers[name].tx_data
                \ DOMAIN Deref(objects.heap, objects.result).producers[name].tx_data # {}
    /\ Minuend.last_block_num # Subtrahend.last_block_num

\* C37: computing s2 - s1 and changing the result afterwards leave the operands with
\* the producers, counters and statistics they had.
C37_Orig ==
    objects.minuend # "none" =>
       /\ Deref(objects.heap, objects.cur) = objects.before.cur
       /\ Deref(objects.heap, objects.old) = objects.before.old

-----------------------------------------------------------------------------
(* The response cache (specification SpecCache): cache_middleware wrapped  *)
(* around a WSGI application, one action per request.                      *)

expiry_seconds == 2

MaxNow == 4

MaxRequests == 2

\* Request(environ): the path, the query string, the Cache-Control directives, whether
\* If-None-Match holds the etag of the stored content, and If-Modified-Since
Requests ==
    [path : {"/range.yaml"}, query : {"", "step=60"},
     no_cache : BOOLEAN, no_store : BOOLEAN,
     if_none_match : BOOLEAN, if_modified_since : {NoTime, 1}]

\* What the wrapped application does with the start_response it is given: one call
\* without exc_info ("ok"); one call with exc_info ("exc"); a call without and then, the
\* body failing, a second one with exc_info ("ok_then_exc"); or it raises ("raise").
Applications == {"ok", "exc", "ok_then_exc", "raise"}

\* req.full_path
full_path(req) == req.path \o "?" \o req.query

\* sent_status after f(environ, inner_start_response): inner_start_response keeps the
\* status of a call without exc and hands a call with exc through
sent_status(app) == IF app \in {"ok", "ok_then_exc"} THEN "200 OK" ELSE "None"

\* the iterable the application returns on its call number n: the page, or the page
\* of its error handler when it reported with exc_info
response_iter(app, n) == [call |-> n, error |-> app \in {"exc", "ok_then_exc"}]

NoContent == [call |-> 0, error |-> FALSE]

\* wrapped(environ, start_response) at clock reading now, the application being called
\* for the n-th time if it is called
wrapped(cache, now, req, app, n) ==
    LET path == full_path(req)
        valid == /\ path \in DOMAIN cache
                 /\ ~(req.no_store \/ req.no_cache)
                 /\ cache[path].updated_time + expiry_seconds > now
    IN IF valid
       THEN LET browser_cache_valid ==
                    \/ req.if_none_match
                    \/ (req.if_modified_since # NoTime
                          /\ cache[path].updated_time < req.if_modified_since)
            IN IF browser_cache_valid
               THEN [cache |-> cache, served |-> "304", invoked |-> FALSE,
                     status |-> "304 Not Modified", content |-> NoContent]
               ELSE [cache |-> cache, served |-> "cache", invoked |-> FALSE,
                     status |-> cache[path].status, content |-> cache[path].content]
       ELSE IF app = "raise"
       THEN [cache |-> cache, served |-> "raised", invoked |-> TRUE,
             status |-> "None", content |-> NoContent]
       ELSE IF sent_status(app) # "None"
       THEN [cache |-> MapPut(cache, path, [updated_time |-> now,
                                            content |-> response_iter(app, n),
                                            status |-> sent_status(app)]),
             served |-> "application", invoked |-> TRUE,
             status |-> sent_status(app), content |-> response_iter(app, n)]
       ELSE [cache |-> cache, served |-> "propagated", invoked |-> TRUE,
             status |-> "500 Internal Server Error", content |-> response_iter(app, n)]

NoRequest == [path |-> "", query |-> "", no_cache |-> FALSE, no_store |-> FALSE,
              if_none_match |-> FALSE, if_modified_since |-> NoTime]

InitCache ==
    /\ utcoffset = UTC
    /\ Idle
    /\ reply = NoReply
    /\ objects = [cache |-> EmptyMap, now |-> 0, calls |-> 0, requests |-> 0,
                  request |-> NoRequest, app |-> "none", served |-> "none",
                  content |-> NoContent]

\* the server hands a request to the middleware
HandleRequest ==
    /\ objects.requests < MaxRequests
    /\ \E req \in Requests, app \in Applications :
         LET res == wrapped(objects.cache, objects.now, req, app, objects.calls + 1)
         IN objects' = [cache |-> res.cache, now |-> objects.now,
                        calls |-> IF res.invoked THEN objects.calls + 1 ELSE objects.calls,
                        requests |-> objects.requests + 1,
                        request |-> req, app |-> app, served |-> res.served,
                        content |-> res.content]
    /\ UNCHANGED <<idleVars, reply>>

\* datetime.datetime.now() moves on by a second
Tick ==
    /\ objects.now < MaxNow
    /\ objects' = [objects EXCEPT !.now = @ + 1]
    /\ UNCHANGED <<idleVars, reply>>

NextCache == HandleRequest \/ Tick

SpecCache == InitCache /\ [][NextCache]_vars

\* C38: a request is answered from the cache only if an entry for its full path is
\* younger than expiry_seconds and it carries neither no-cache nor no-store, and then
\* with that entry; otherwise the application is called and, unless it raises or
\* reports with exc_info, its response becomes the entry; a response reported with
\* exc_info is not stored.
C38_Orig ==
    [][objects'.requests # objects.requests =>
          LET req == objects'.request
              path == full_path(req)
              fresh == /\ path \in DOMAIN objects.cache
                       /\ objects.now - objects.cache[path].updated_time < expiry_seconds
                       /\ ~req.no_cache /\ ~req.no_store
          IN /\ objects'.served \in {"cache", "304"} <=> fresh
             /\ fresh => /\ objects'.calls = objects.calls
                         /\ objects'.cache = objects.cache
                         /\ objects'.served = "cache" =>
                               objects'.content = objects.cache[path].content
             /\ ~fresh =>
                   /\ objects'.calls = objects.calls + 1
                   /\ \A p \in DOMAIN objects.cache \ {path} :
                         p \in DOMAIN objects'.cache /\ objects'.cache[p] = objects.cache[p]
                   /\ objects'.app = "ok" =>
                         /\ path \in DOMAIN objects'.cache
                         /\ objects'.cache[path].content.call = objects'.calls
                         /\ objects'.cache[path].updated_time = objects.now
                   /\ objects'.app \in {"exc", "ok_then_exc"} =>
                         objects'.cache = objects.cache
      ]_vars

-----------------------------------------------------------------------------
(* BPPerformance (src/bp_performance.py): the timing queues and the block  *)
(* summaries kept in memory (specification SpecTimings).  Times are in     *)
(* milliseconds; max_age is in seconds.                                    *)

max_count == 2

max_age == 1

MaxTick == 3

MaxHandled == 3

\* classifiers.get((account, name)) and the category the classifier gives
Classify(action) ==
    IF action.account = "eosio" /\ action.name = "buyram" THEN "Buy RAM" ELSE "None"

\* _trim_stats(queue, timestamp): the surplus over max_count is popped from the left,
\* then heads older than timestamp - max_age are removed until a head is not older
RECURSIVE RemoveOldHeads(_, _)
RemoveOldHeads(queue, min_time) ==
    IF queue = <<>> THEN queue
    ELSE IF queue[1][1] < min_time THEN RemoveOldHeads(Tail(queue), min_time)
    ELSE queue

_trim_stats(queue, at) ==
    LET counted == IF Len(queue) > max_count
                   THEN SubSeq(queue, Len(queue) - max_count + 1, Len(queue))
                   ELSE queue
    IN RemoveOldHeads(counted, at - max_age * 1000)

\* self._stats[category][producer] on the defaultdicts
QueueOf(stats_, category, producer) ==
    IF <<category, producer>> \in DOMAIN stats_ THEN stats_[<<category, producer>>] ELSE <<>>

_store_value(stats_, producer, category, at, time) ==
    MapPut(stats_, <<category, producer>>,
           _trim_stats(Append(QueueOf(stats_, category, producer), <<at, time>>),
                       at))

\* the loop of _handle_block_transactions from transaction i on
RECURSIVE _handle_block_transactions(_, _, _)
_handle_block_transactions(stats_, block, i) ==
    IF i > Len(block.transactions) THEN stats_
    ELSE LET tx == block.transactions[i]
             stored == IF /\ tx.trx.is_dict
                          /\ Len(tx.trx.actions) = 1
                          /\ Classify(tx.trx.actions[1]) # "None"
                       THEN _store_value(stats_, block.producer,
                                         Classify(tx.trx.actions[1]),
                                         block.timestamp, tx.cpu_usage_us)
                       ELSE stats_
         IN _handle_block_transactions(stored, block, i + 1)

_BlockSummary(at, producer, slot_position, produced) ==
    [timestamp |-> at, producer |-> producer, slot_position |-> slot_position,
     produced |-> produced]

\* _handle_block_summaries: the summaries after the call and the exception leaving it
_handle_block_summaries(summaries, schedules, block) ==
    LET new_timestamp == block.timestamp
        schedule == IF block.schedule_version \in DOMAIN schedules
                    THEN schedules[block.schedule_version] ELSE NoneList
        slots_missed == IF summaries # <<>>
                        THEN int((new_timestamp - summaries[Len(summaries)].timestamp) * 2, 1000) - 1
                        ELSE 0
        missed == IF slots_missed > 0 /\ schedule # NoneList
                  THEN [i \in 1 .. slots_missed |->
                          LET missed_timestamp ==
                                  summaries[Len(summaries)].timestamp + i * SlotMillis
                              ps == _block_producer_for_timestamp(missed_timestamp, schedule)
                          IN _BlockSummary(missed_timestamp, ps[1], ps[2], FALSE)]
                  ELSE <<>>
        filled == summaries \o missed
    IN IF schedule = NoneList
       THEN [summaries |-> filled, exc |-> "none"]
       ELSE LET ps == _block_producer_for_timestamp(new_timestamp, schedule)
            IN IF ps[1] # block.producer
               THEN [summaries |-> filled, exc |-> "AssertionError"]
               ELSE LET all == Append(filled,
                                      _BlockSummary(new_timestamp, block.producer, ps[2], TRUE))
                    IN [summaries |-> IF Len(all) > max_age * 2
                                      THEN SubSeq(all, Len(all) - max_age * 2 + 1, Len(all))
                                      ELSE all,
                        exc |-> "none"]

\* BPPerformance._handle_block
BPPerformance_handle_block(self, block) ==
    LET stored == _handle_block_transactions(self._stats, block, 1)
        summed == _handle_block_summaries(self._block_summaries, self._schedules, block)
    IN [self EXCEPT !._stats = stored,
                    !._block_summaries = summed.summaries,
                    !._last_timestamp = IF summed.exc = "none" THEN block.timestamp ELSE @,
                    !.exc = summed.exc]

\* the property stats: every queue is trimmed where it stands, the empty ones are left
\* out of the result
TrimAll(self) ==
    [key \in DOMAIN self._stats |-> _trim_stats(self._stats[key], self._last_timestamp)]

stats(self) ==
    LET trimmed == TrimAll(self)
    IN [key \in { k \in DOMAIN trimmed : trimmed[k] # <<>> } |-> trimmed[key]]

\* the blocks the watcher hands over: at any of the first slots (in slot order, or an
\* earlier block again after get_info fell back), by the scheduled producer bpa or not,
\* with up to three transactions
HandledBlocks ==
    [timestamp : { k * SlotMillis : k \in 0 .. MaxTick },
     producer : {"bpa", "bpb"},
     schedule_version : {1},
     transactions : { <<>>,
                      <<DictTx(100, <<Action("eosio", "buyram")>>)>>,
                      <<DictTx(100, <<Action("eosio", "buyram")>>),
                        StrTx(300),
                        DictTx(200, <<Action("eosio", "buyram")>>),
                        DictTx(400, <<Action("eosio", "buyram")>>)>> }]

InitTimings ==
    /\ utcoffset = UTC
    /\ Idle
    /\ reply = NoReply
    /\ objects = [_stats |-> EmptyMap, _block_summaries |-> <<>>, _last_timestamp |-> 0,
                  _schedules |-> MapPut(EmptyMap, 1, ScheduleOfVersion(1)),
                  exc |-> "none", handled |-> 0]

\* watch() hands the next block to _handle_block; an exception is caught by watch()
HandleBlock ==
    /\ reply = NoReply
    /\ objects.handled < MaxHandled
    /\ \E block \in HandledBlocks :
         objects' = [BPPerformance_handle_block(objects, block) EXCEPT !.handled = @ + 1]
    /\ UNCHANGED <<idleVars, reply>>

\* a request reads the property stats
ReadStats ==
    /\ reply = NoReply
    /\ objects.handled > 0
    /\ reply' = Called("stats", Returns(stats(objects)))
    /\ objects' = [objects EXCEPT !._stats = TrimAll(objects)]
    /\ UNCHANGED idleVars

NextTimings == HandleBlock \/ ReadStats

SpecTimings == InitTimings /\ [][NextTimings]_vars

\* C39: every queue the property stats returns has at most max_count entries and none
\* older than max_age before the timestamp of the last block handled; the summaries
\* number at most 2 * max_age after every call of _handle_block.
C39_Orig ==
    /\ reply.op = "stats" =>
          \A key \in DOMAIN reply.value :
             /\ Len(reply.value[key]) <= max_count
             /\ \A i \in 1 .. Len(reply.value[key]) :
                   reply.value[key][i][1] >= objects._last_timestamp - max_age * 1000
    /\ Len(objects._block_summaries) <= 2 * max_age

=============================================================================
